---- MODULE Spec2Model ----
(***************************************************************************)
(* ship-it: the provisioning orchestrator (fullDeploy), the cleanup        *)
(* tracker of dev mode (cleanup.ts) and the non-interactive runner         *)
(* (provision), modelled as asynchronous tasks of one Bun process talking  *)
(* to the Hetzner API and to the cleanup file in the temporary directory.  *)
(*                                                                         *)
(* A task runs from one await to the next in one action (JavaScript runs   *)
(* a continuation to its next suspension point without interleaving).      *)
(***************************************************************************)
EXTENDS Integers, Sequences, FiniteSets, TLC

\* ------------------------------------------------------------ bounds
\* Largest replica count (serverCount) a request asks for.
MaxServerCount == 3
\* Number of calls the client of the cleanup module makes in SpecApi.
MaxApiCalls == 4
\* Largest replica count of a TUI request in SpecRecover.
MaxRecoverServerCount == 2
\* Number of ensure calls the client makes in SpecEnsure.
MaxEnsureCalls == 4
\* Largest timeout, in seconds, of a polling call in SpecPoll.
MaxPollTimeout == 5
\* Longest time, in seconds, one poll takes to answer in SpecPoll.
MaxLatency == 2
\* Largest replica count of a TUI request in SpecInterrupt.
MaxInterruptServerCount == 2

\* ------------------------------------------------------------ constants
\* First id the mock client hands out (let mockServerId = 10000).
MockFirstId == 10000
\* Address every mock getServer answer carries ("10.0.0.1").
MockIp == 10001
\* First id and address the real provider allocates in a run; resources of
\* earlier runs (OrphanIds) have other ids.
FirstId == 1

NoToken == "null"
Tokens == {"T"}
NoFile == [absent |-> TRUE]
\* Server ids a crashed earlier dev run left in the cleanup file.
OrphanIds == <<101, 102>>

Tasks == {"main", "init", "sig", "api"}

VARIABLES
    proc,               \* "alive", "exited" (process.exit) or "crashed" (killed)
    pc,                 \* where each task is suspended
    state,              \* cleanup.ts: state = {hetznerToken, serverIds}
    cleanupRegistered,  \* cleanup.ts: handlers installed
    file,               \* content of CLEANUP_FILE, or NoFile
    writeBuf,           \* per task: the JSON a pending writeFile carries
    sweep,              \* per task: position of runCleanup's for-of loop
    servers,            \* server ids that exist at the real provider
    nextId,             \* next id/address the real provider allocates
    mockServerId,       \* hetzner-mock.ts: let mockServerId
    deleteReqs,         \* DELETE /servers/{id} requests issued, in order
    registry,           \* per kind: names of the SSH keys / firewalls at the provider
    postReqs,           \* POST /ssh_keys and POST /firewalls requests issued, in order
    ens,                \* SpecEnsure: the ensure call in progress {kind, name, ports}
    fwRules,            \* per firewall at the provider, in registry order: TRUE iff
                        \* its rules include the accessory ports
    now,                \* SpecPoll: Date.now(), in seconds
    wait,               \* SpecPoll: the polling call in progress
    apiOp,              \* SpecApi: the call in progress / last made
    apiPrev,            \* SpecApi: the call completed before it
    apiCalls,           \* SpecApi: number of calls made
    disk,               \* whether writeFile on the machine's temporary directory
                        \* always succeeds ("reliable") or may be rejected
    entry,              \* "tui" (App + fullDeploy), "cli" (provision) or "api"
    mode,               \* RunMode: "production", "dev" or "dry-run"
    serverCount,        \* DeployOptions.serverCount
    accessories,        \* "none", "same-server" or "dedicated-server"
    steps,              \* fullDeploy: status of each DeployStep
    stepMsg,            \* fullDeploy: message of each DeployStep
    progress,           \* onProgress: number of calls and the list last received
    kept,               \* observer: the statuses in the list of the first callback,
                        \* as they were when it was received
    i,                  \* fullDeploy: index of the loop in progress
    created,            \* fullDeploy: the servers createServer returned
    resp,               \* the answer of the provider call in flight
    polled,             \* number of app servers whose waitForServer has returned
    readyServers,       \* fullDeploy: what Promise.all(waitForServer) resolved to
    accServer,          \* fullDeploy: the dedicated accessories server
    loadBalancer,       \* fullDeploy: the load balancer, once it has an address
    sshDone,            \* number of hosts whose waitForSSH has returned
    hasDockerfile,      \* projectInfo.hasDockerfile
    raised,             \* the error fullDeploy threw
    result,             \* the DeployResult fullDeploy returned
    deployments,        \* number of records in the deployments store
    createCalls,        \* names passed to createServer, in order
    applyCalls,         \* server ids passed to applyFirewallToServer, in order
    lbCalls,            \* {name, serverIds} passed to createLoadBalancer, in order
    pollCalls,          \* server ids passed to waitForServer, in order
    sshCalls,           \* addresses passed to waitForSSH, in order
    kamalCalls,         \* number of times `kamal setup` was spawned
    createdIds          \* ids of the servers the provider created for this run

cleanupVars == <<state, cleanupRegistered, file, writeBuf, sweep>>
registryVars == <<registry, postReqs, ens, fwRules>>
pollVars == <<now, wait>>
providerVars == <<servers, nextId, mockServerId, deleteReqs, registryVars, pollVars>>
apiVars == <<apiOp, apiPrev, apiCalls>>
reqVars == <<disk, entry, mode, serverCount, accessories>>
stepVars == <<steps, stepMsg, progress, kept>>
runVars == <<i, created, resp, polled, readyServers, accServer, loadBalancer,
             sshDone, hasDockerfile, raised, result, deployments>>
logVars == <<createCalls, applyCalls, lbCalls, pollCalls, sshCalls, kamalCalls,
            createdIds>>
pipeVars == <<reqVars, stepVars, runVars, logVars>>
vars == <<proc, pc, cleanupVars, providerVars, apiVars, pipeVars>>

\* ------------------------------------------------------------ helpers
Range(s) == {s[k] : k \in 1..Len(s)}

RECURSIVE FilterOut(_, _)
\* state.serverIds.filter((id) => id !== serverId)
FilterOut(s, x) ==
    IF s = <<>> THEN <<>>
    ELSE IF Head(s) = x THEN FilterOut(Tail(s), x)
         ELSE <<Head(s)>> \o FilterOut(Tail(s), x)

RECURSIVE Merge(_, _)
\* for (const id of persisted.serverIds) if (!cur.includes(id)) cur.push(id)
Merge(cur, persisted) ==
    IF persisted = <<>> THEN cur
    ELSE Merge(IF Head(persisted) \in Range(cur) THEN cur
               ELSE Append(cur, Head(persisted)), Tail(persisted))

\* The serverIds a reader of the cleanup file finds (absent file: none).
FileIds == IF file = NoFile THEN <<>> ELSE file.serverIds

NoSweep == [i |-> 0, live |-> FALSE, arr |-> <<>>]
NoResp == [kind |-> "none"]
NoServer == [id |-> 0, name |-> [base |-> "", suffix |-> ""], ip |-> 0]
NoLb == [id |-> 0, ip |-> 0]
NoError == [prefix |-> "", text |-> "", sid |-> 0]
NoMsg == [text |-> "", sid |-> 0]
NoOp == [op |-> "none", id |-> 0]
NoEns == [kind |-> "none", name |-> "", ports |-> FALSE]
NoProgress == [calls |-> 0, last |-> <<>>]
NoDuration == -1
NoFailure == [text |-> "", after |-> NoDuration]
NoWait == [loop |-> "none", pc |-> "off", start |-> 0, timeout |-> 0,
           polls |-> 0, seen |-> "", error |-> NoFailure]

\* A loop that iterates a copy of the list taken before it was filled.
ViewDetached(t) == sweep[t].arr

\* The array runCleanup's loop of task t iterates: state.serverIds itself
\* while that array object is still the one in state, else the old object.
View(t) == IF sweep[t].live THEN state.serverIds ELSE sweep[t].arr

\* state.serverIds is assigned a new array object: loops of other tasks keep
\* iterating the old object.
Detach(t) ==
    [u \in Tasks |->
        IF u # t /\ sweep[u].live
        THEN [sweep[u] EXCEPT !.live = FALSE, !.arr = state.serverIds]
        ELSE sweep[u]]

GoFrom(t, from, to) == pc[t] = from /\ pc' = [pc EXCEPT ![t] = to]

\* ------------------------------------------------------------ cleanup.ts
\* Where runCleanup returns to in each task.
RcRet(t) ==
    CASE t = "init" -> "ic_register"
      [] t = "sig" -> "exit0"
      [] OTHER -> "api_ret"

\* Outcomes of one DELETE request: 2xx, non-2xx answer, fetch throws.
DeleteOutcomes(id) == IF id \in servers THEN {"ok", "error", "throw"}
                      ELSE {"error", "throw"}

\* A loop that gives up at the first DELETE that does not succeed.
AbortOnFailure(k, n, out) == IF out = "ok" THEN k + 1 ELSE n

\* runCleanup, the loop index after one iteration: the else branch and the
\* catch only log, so the loop goes on to the next id whatever the outcome.
AfterDelete(k, n, out) == k + 1

\* runCleanup, entry: if (state.serverIds.length === 0 || !state.hetznerToken) return
runCleanupEntry(t) ==
    /\ proc = "alive"
    /\ pc[t] = "rc_entry"
    /\ IF Len(state.serverIds) = 0 \/ state.hetznerToken = NoToken
       THEN /\ pc' = [pc EXCEPT ![t] = RcRet(t)]
            /\ UNCHANGED sweep
       ELSE /\ pc' = [pc EXCEPT ![t] = "rc_loop"]
            /\ sweep' = [sweep EXCEPT ![t] = [i |-> 0, live |-> TRUE, arr |-> <<>>]]
    /\ UNCHANGED <<proc, state, cleanupRegistered, file, writeBuf, providerVars, apiVars, pipeVars>>

\* runCleanup, one iteration of for (const serverId of state.serverIds):
\* the DELETE request and its outcome; failures are logged and swallowed.
runCleanupDelete(t) ==
    /\ proc = "alive"
    /\ pc[t] = "rc_loop"
    /\ sweep[t].i < Len(View(t))
    /\ LET id == View(t)[sweep[t].i + 1] IN
       /\ deleteReqs' = Append(deleteReqs, id)
       /\ \E out \in DeleteOutcomes(id) :
            /\ servers' = IF out = "ok" THEN servers \ {id} ELSE servers
            /\ sweep' = [sweep EXCEPT ![t].i = AfterDelete(@, Len(View(t)), out)]
    /\ UNCHANGED <<proc, pc, state, cleanupRegistered, file, writeBuf,
                   nextId, mockServerId, registryVars, pollVars, apiVars, pipeVars>>

\* A sweep that forgets nothing: the tracked ids stay after the loop.
AfterSweepKept(ids) == ids

\* runCleanup, after the loop: state.serverIds = []
AfterSweep(ids) == <<>>

\* runCleanup, after the loop: state.serverIds = []; await clearPersistedState()
runCleanupFinish(t) ==
    /\ proc = "alive"
    /\ pc[t] = "rc_loop"
    /\ sweep[t].i >= Len(View(t))
    /\ state' = [state EXCEPT !.serverIds = AfterSweep(@)]
    /\ sweep' = [Detach(t) EXCEPT ![t] = NoSweep]
    /\ pc' = [pc EXCEPT ![t] = "rc_unlink"]
    /\ UNCHANGED <<proc, cleanupRegistered, file, writeBuf, providerVars, apiVars, pipeVars>>

\* clearPersistedState: unlink(CLEANUP_FILE); the error of a missing file is
\* ignored.  runCleanup then returns.
clearPersistedState(t) ==
    /\ proc = "alive"
    /\ pc[t] = "rc_unlink"
    /\ file' = NoFile
    /\ pc' = [pc EXCEPT ![t] = RcRet(t)]
    /\ UNCHANGED <<proc, state, cleanupRegistered, writeBuf, sweep, providerVars, apiVars, pipeVars>>

\* A persistState that serialises the list as it was before the mutation.
SnapshotStale(st) == [hetznerToken |-> st.hetznerToken, serverIds |-> state.serverIds]

\* The content persistState hands to writeFile: JSON.stringify(state).
Snapshot(st) == [hetznerToken |-> st.hetznerToken, serverIds |-> st.serverIds]

\* trackServer up to its await: state.serverIds.push(serverId); persistState()
trackServerCall(t, id) ==
    /\ state' = [state EXCEPT !.serverIds = Append(@, id)]
    /\ writeBuf' = [writeBuf EXCEPT ![t] = Snapshot(state')]

\* untrackServer up to its await: state.serverIds = filter(...); persistState()
untrackServerCall(t, id) ==
    /\ state' = [state EXCEPT !.serverIds = FilterOut(@, id)]
    /\ sweep' = Detach(t)
    /\ writeBuf' = [writeBuf EXCEPT ![t] = Snapshot(state')]

\* Where a task continues when its persistState() has settled.
AfterPersist(label) ==
    CASE label = "api_track_w" -> "api_ret"
      [] label = "api_untrack_w" -> "api_ret"
      [] label = "cli_track_w" -> "cli_tracked"
      [] label = "servers_track_w" -> "servers_tracked"
      [] OTHER -> "acc_tracked"

PersistLabels == {"api_track_w", "api_untrack_w", "cli_track_w",
                  "servers_track_w", "acc_track_w"}

\* What writeFile leaves in the file: the new content, or, when it rejects
\* (persistState catches and ignores the error), the old one.
WriteResults(old, new) == {new, old}

\* The machines a process can run on: one whose temporary directory takes
\* every write, and one where a write can be rejected.
Disks == {"reliable", "unreliable"}

\* persistState settles: writeFile(CLEANUP_FILE, JSON.stringify(state)) in a
\* try whose catch ignores every error.
persistState(t) ==
    /\ proc = "alive"
    /\ pc[t] \in PersistLabels
    /\ \E f \in WriteResults(file, writeBuf[t]) :
            /\ disk = "reliable" => f = writeBuf[t]
            /\ file' = f
    /\ writeBuf' = [writeBuf EXCEPT ![t] = NoFile]
    /\ pc' = [pc EXCEPT ![t] = AfterPersist(pc[t])]
    /\ UNCHANGED <<proc, state, cleanupRegistered, sweep, providerVars, apiVars, pipeVars>>

\* initCleanup up to its first await: state.hetznerToken = hetznerToken;
\* recoverOrphanedServers() starts reading the file.  Runs as task "init".
initCleanupCall(token) ==
    /\ pc["init"] \in {"off", "done"}
    /\ state' = [state EXCEPT !.hetznerToken = token]

\* recoverOrphanedServers: readFile + JSON.parse; a missing file throws into
\* the empty catch.  With ids and a token: merge, then runCleanup() - whose
\* entry test passes, since the merged list is not empty.
recoverOrphanedServers ==
    /\ proc = "alive"
    /\ pc["init"] = "rec_read"
    /\ IF file # NoFile /\ Len(file.serverIds) > 0 /\ state.hetznerToken # NoToken
       THEN /\ state' = [state EXCEPT !.serverIds = Merge(@, file.serverIds)]
            /\ sweep' = [sweep EXCEPT !["init"] = [i |-> 0, live |-> TRUE, arr |-> <<>>]]
            /\ pc' = [pc EXCEPT !["init"] = "rc_loop"]
       ELSE /\ pc' = [pc EXCEPT !["init"] = "ic_register"]
            /\ UNCHANGED <<state, sweep>>
    /\ UNCHANGED <<proc, cleanupRegistered, file, writeBuf, providerVars, apiVars, pipeVars>>

\* initCleanup after recovery: if (!cleanupRegistered) { ...process.on(...) }
initCleanupRegister ==
    /\ proc = "alive"
    /\ pc["init"] = "ic_register"
    /\ cleanupRegistered' = TRUE
    /\ pc' = [pc EXCEPT !["init"] = "done"]
    /\ UNCHANGED <<proc, state, file, writeBuf, sweep, providerVars, apiVars, pipeVars>>

\* SIGINT / SIGTERM with the handlers installed: handleExit calls runCleanup.
handleExit ==
    /\ proc = "alive"
    /\ cleanupRegistered
    /\ pc["sig"] = "off"
    /\ pc' = [pc EXCEPT !["sig"] = "rc_entry"]
    /\ UNCHANGED <<proc, cleanupVars, providerVars, apiVars, pipeVars>>

\* The process ends: everything it held in memory is gone; the cleanup
\* file, the deployments file and the provider's servers stay.
ProcessEnds(how) ==
    /\ proc = "alive"
    /\ proc' = how
    /\ pc' = [t \in Tasks |-> "off"]
    /\ state' = [hetznerToken |-> NoToken, serverIds |-> <<>>]
    /\ cleanupRegistered' = FALSE
    /\ writeBuf' = [t \in Tasks |-> NoFile]
    /\ sweep' = [t \in Tasks |-> NoSweep]
    /\ deleteReqs' = <<>>
    /\ postReqs' = <<>> /\ ens' = NoEns
    /\ apiOp' = NoOp /\ apiPrev' = NoOp
    /\ steps' = [id \in DOMAIN steps |-> "pending"]
    /\ stepMsg' = [id \in DOMAIN steps |-> NoMsg]
    /\ progress' = NoProgress /\ kept' = <<>>
    /\ i' = 0 /\ created' = <<>> /\ resp' = NoResp /\ polled' = 0
    /\ readyServers' = <<>> /\ accServer' = NoServer /\ loadBalancer' = NoLb
    /\ sshDone' = 0 /\ hasDockerfile' = FALSE /\ raised' = NoError
    /\ result' = NoResp
    /\ createCalls' = <<>> /\ applyCalls' = <<>> /\ lbCalls' = <<>>
    /\ sshCalls' = <<>> /\ kamalCalls' = 0
    /\ pollCalls' = <<>>
    /\ UNCHANGED <<file, servers, nextId, mockServerId, registry, fwRules, pollVars,
                   apiCalls, reqVars, deployments, createdIds>>

\* App.tsx useInput, Ctrl+C: in dev mode runCleanup().finally(() => exit()),
\* whether or not initCleanup has finished; in the other modes exit().
ctrlC ==
    /\ proc = "alive"
    /\ entry = "tui"
    /\ pc["sig"] = "off"
    /\ IF mode = "dev"
       THEN /\ pc' = [pc EXCEPT !["sig"] = "rc_entry"]
            /\ UNCHANGED <<proc, cleanupVars, providerVars, apiVars, pipeVars>>
       ELSE ProcessEnds("exited")

\* handleExit after await runCleanup(): process.exit(0)
handleExitDone ==
    /\ pc["sig"] = "exit0"
    /\ ProcessEnds("exited")

\* The process is killed (SIGKILL, power loss, or a signal that has no
\* handler) at any point.
Crash == ProcessEnds("crashed")

\* ------------------------------------------------------------ provider
Msg(text) == [text |-> text, sid |-> 0]

IsDryRun == mode = "dry-run"

\* String(i) for the replica numbers a server name carries.
Digits == <<"1", "2", "3", "4", "5", "6", "7", "8", "9", "10">>

\* A name that carries the replica number whatever the replica count.
ServerNameNumbered(k) == [base |-> "name", suffix |-> Digits[k]]

\* name: `${serverName}-lb`
LoadBalancerName == [base |-> "name", suffix |-> "lb"]

\* const name = serverCount > 1 ? `${serverName}-${i}` : serverName
ServerName(k) ==
    [base |-> "name", suffix |-> IF serverCount > 1 THEN Digits[k] ELSE ""]

\* What createServer answers.  The real client posts to /servers; the
\* provider either creates the server under a fresh id and address or
\* rejects the request.  The mock client never fails and counts ids up.
createServer(name) ==
    IF IsDryRun
    THEN /\ resp' = [kind |-> "ok",
                     server |-> [id |-> mockServerId, name |-> name, ip |-> MockIp]]
         /\ mockServerId' = mockServerId + 1
         /\ UNCHANGED <<servers, nextId, createdIds>>
    ELSE \/ /\ resp' = [kind |-> "ok",
                        server |-> [id |-> nextId, name |-> name, ip |-> nextId]]
            /\ servers' = servers \cup {nextId}
            /\ createdIds' = createdIds \cup {nextId}
            /\ nextId' = nextId + 1
            /\ UNCHANGED mockServerId
         \/ /\ resp' = [kind |-> "error", text |-> "provider error"]
            /\ UNCHANGED <<servers, nextId, mockServerId, createdIds>>

\* What getServer answers for a server createServer returned: the provider's
\* record, or the mock's fixed "mock-server" at 10.0.0.1.
getServer(s) ==
    IF IsDryRun
    THEN [id |-> s.id, name |-> [base |-> "mock-server", suffix |-> ""], ip |-> MockIp]
    ELSE s

\* Outcomes of waitForServer: a running server, the timeout, or a getServer
\* error.  The mock returns after one delay.
WaitOutcomes ==
    IF IsDryRun THEN {"running"}
    ELSE {"running", "Server creation timed out", "provider error"}

\* Outcomes of a call of the real client that answers nothing of interest.
CallOutcomes == IF IsDryRun THEN {"ok"} ELSE {"ok", "provider error"}

\* A placement test that takes every enabled accessory for a dedicated one.
AccessoriesEnabled == accessories # "none"

\* accessories?.enabled && accessories.placement === "dedicated-server"
Dedicated == accessories = "dedicated-server"

\* The two kinds of named resource the ensure operations manage.
Kinds == {"ssh_key", "firewall"}

\* createFirewall: rules = SSH 22, HTTP 80, HTTPS 443, and one "DB port"
\* rule per port if (options.accessoryPorts). The result is whether the
\* accessory ports are among the rules.
createFirewall(ports) == ports

\* fullDeploy's firewall step: accessoryPorts = accessories?.enabled &&
\* placement === "dedicated-server" ? accessories.map(a => a.port) : undefined.
\* ensureSSHKey takes no such option.
accessoryPorts(kind) == kind = "firewall" /\ Dedicated

\* The rules of the firewall of that name at the provider, as
\* getFirewallByName returns them: those it was created with.
RulesOf(name) ==
    fwRules[CHOOSE k \in 1..Len(registry["firewall"]) : registry["firewall"][k] = name]

\* An ensure that creates without looking.
AlwaysCreate(list, name) == TRUE

\* getSSHKeyByName / getFirewallByName: list.find((x) => x.name === name)
\* || null; ensure creates exactly when that is null.
NeedsCreate(list, name) == name \notin Range(list)

\* const sshKeyName = `ship-it-${serverName}`, and firewallName the same.
ResourceName == "ship-it-name"

\* ensureSSHKey / ensureFirewall of the real client, the whole call: the
\* GET fails, or the resource is found and returned, or POST is requested
\* and the provider creates the resource (how = "ok") or rejects it.
Ensure(kind, name, ports, how) ==
    IF how = "get-fails" \/ ~NeedsCreate(registry[kind], name)
    THEN UNCHANGED <<registry, postReqs, fwRules>>
    ELSE /\ postReqs' = Append(postReqs, [kind |-> kind, name |-> name, ports |-> ports])
         /\ registry' = IF how = "ok"
                         THEN [registry EXCEPT ![kind] = Append(@, name)]
                         ELSE registry
         /\ fwRules' = IF how = "ok" /\ kind = "firewall"
                        THEN Append(fwRules, createFirewall(ports))
                        ELSE fwRules

\* ensure as fullDeploy calls it: the mock client finds nothing and creates
\* nothing at the provider.
EnsureStep(kind, out) ==
    /\ IF IsDryRun THEN UNCHANGED <<registry, postReqs, fwRules>>
       ELSE IF out = "ok" THEN Ensure(kind, ResourceName, accessoryPorts(kind), "ok")
       ELSE \E how \in {"get-fails", "post-fails"} :
                Ensure(kind, ResourceName, accessoryPorts(kind), how)
    /\ UNCHANGED ens

\* What the two ensure steps of fullDeploy leave alone.
EnsureRest == <<proc, cleanupVars, servers, nextId, mockServerId, deleteReqs,
                pollVars, apiVars, reqVars, logVars>>

\* ------------------------------------------------------------ fullDeploy
STEPS == <<"detect", "ssh-key", "firewall", "servers", "wait-servers",
           "accessories-server", "load-balancer", "ssh-wait", "dockerfile",
           "kamal-check", "kamal-init", "git-commit", "kamal-setup">>

StepIds == Range(STEPS)

StepName(id) ==
    CASE id = "detect" -> "Detecting project"
      [] id = "ssh-key" -> "Setting up SSH key"
      [] id = "firewall" -> "Creating firewall"
      [] id = "servers" -> "Provisioning app servers"
      [] id = "wait-servers" -> "Waiting for app servers"
      [] id = "accessories-server" -> "Provisioning accessories server"
      [] id = "load-balancer" -> "Creating load balancer"
      [] id = "ssh-wait" -> "Waiting for SSH"
      [] id = "dockerfile" -> "Generating Dockerfile"
      [] id = "kamal-check" -> "Checking Kamal"
      [] id = "kamal-init" -> "Configuring Kamal"
      [] id = "git-commit" -> "Committing config"
      [] OTHER -> "Running Kamal setup"

\* A caller that is not told.
notCalled(p, list) == p

\* onProgress?.(steps): the callback receives the steps array itself, every
\* step in the order of STEPS with its status at the time of the call.
onProgress(p, list) == [calls |-> p.calls + 1, last |-> list]

\* What an observer reads now in a list it received from onProgress and
\* kept. The list is fullDeploy's steps array; the copy the TUI keeps,
\* setSteps([...updatedSteps]), is a new array of the same step objects,
\* and updateStep assigns step.status on those objects.
readKept(list) == [k \in 1..Len(list) |-> [id |-> list[k].id, status |-> steps[list[k].id]]]

\* updateStep: const step = steps.find((s) => s.id === id); if (step) {
\* step.status = status; step.message = message; onProgress?.(steps) }
updateStep(id, status, message) ==
    /\ steps' = [steps EXCEPT ![id] = status]
    /\ stepMsg' = [stepMsg EXCEPT ![id] = message]
    /\ progress' = onProgress(progress,
                      [k \in 1..Len(STEPS) |->
                          [id |-> STEPS[k], status |-> steps'[STEPS[k]]]])
    /\ kept' = IF progress.calls = 0 /\ progress'.calls = 1
               THEN progress'.last
               ELSE kept

\* A catch that swallows the error: the run goes on with the next phase.
Swallowed == "load-balancer"

\* Where the main task goes when fullDeploy throws.
Thrown == "raised"

\* runStep, the catch: updateStep(stepId, "error", errorMsg);
\* throw new Error(`${stepName}: ${errorMsg}`)
runStepCatch(id, err) ==
    /\ updateStep(id, "error", err)
    /\ raised' = [prefix |-> StepName(id), text |-> err.text, sid |-> err.sid]
    /\ pc' = [pc EXCEPT !["main"] = Thrown]

\* An error thrown outside runStep leaves the steps as they are.
throwOutside(prefix, err) ==
    /\ raised' = [prefix |-> prefix, text |-> err.text, sid |-> err.sid]
    /\ pc' = [pc EXCEPT !["main"] = Thrown]
    /\ UNCHANGED stepVars

\* The first server's address whatever the load balancer.
firstServerIp(lb, ready) == ready[1].ip

\* Public IP is LB if present, else first server:
\* loadBalancer?.public_net.ipv4.ip || serverIps[0]
publicIp(lb, ready) == IF lb # NoLb /\ lb.ip # 0 THEN lb.ip ELSE ready[1].ip

Main(from) == proc = "alive" /\ pc["main"] = from
Goto(to) == pc' = [pc EXCEPT !["main"] = to]

\* Everything but pc, the steps and the variables named in the action.
Rest == <<proc, cleanupVars, providerVars, apiVars, reqVars, logVars>>

\* App.tsx: the token is configured; in dev mode the effect calls
\* initCleanup(token) without awaiting it.
AppSetToken ==
    /\ Main("tui_start")
    /\ IF mode = "dev"
       THEN /\ \E token \in Tokens : initCleanupCall(token)
            /\ pc' = [pc EXCEPT !["main"] = "tui_wizard", !["init"] = "rec_read"]
       ELSE /\ Goto("tui_wizard")
            /\ UNCHANGED state
    /\ UNCHANGED <<proc, cleanupRegistered, file, writeBuf, sweep, providerVars,
                   apiVars, pipeVars>>

\* Complete.tsx calls fullDeploy: runStep("detect") sets the step running.
fullDeployStart ==
    /\ Main("tui_wizard")
    /\ updateStep("detect", "running", NoMsg)
    /\ Goto("detect")
    /\ UNCHANGED <<Rest, runVars>>

\* Step 1: detectProject(projectPath)
detectProject ==
    /\ Main("detect")
    /\ \/ /\ \E b \in BOOLEAN : hasDockerfile' = b
          /\ updateStep("detect", "done", Msg("Detected project"))
          /\ Goto("ssh-key")
          /\ UNCHANGED raised
       \/ /\ runStepCatch("detect", Msg("detect failed"))
          /\ UNCHANGED hasDockerfile
    /\ UNCHANGED <<Rest, i, created, resp, polled, readyServers, accServer,
                   loadBalancer, sshDone, result, deployments>>

\* Step 2: in dry-run the step is set done at once, else runStep("ssh-key")
sshKeyStep ==
    /\ Main("ssh-key")
    /\ IF IsDryRun
       THEN updateStep("ssh-key", "done", Msg("[dry-run]")) /\ Goto("firewall")
       ELSE updateStep("ssh-key", "running", NoMsg) /\ Goto("ssh-key_w")
    /\ UNCHANGED <<Rest, runVars>>

\* generateSSHKey(sshKeyName); hetzner.ensureSSHKey(token, sshKeyName, key)
ensureSSHKey ==
    /\ Main("ssh-key_w")
    /\ \E out \in CallOutcomes :
        /\ EnsureStep("ssh_key", out)
        /\ IF out = "ok"
           THEN updateStep("ssh-key", "done", NoMsg) /\ Goto("firewall") /\ UNCHANGED raised
           ELSE runStepCatch("ssh-key", Msg(out))
    /\ UNCHANGED <<EnsureRest, i, created, resp, polled, readyServers, accServer,
                   loadBalancer, sshDone, hasDockerfile, result, deployments>>

\* Step 3: runStep("firewall", ...)
firewallStep ==
    /\ Main("firewall")
    /\ updateStep("firewall", "running", NoMsg)
    /\ Goto("firewall_w")
    /\ UNCHANGED <<Rest, runVars>>

\* hetzner.ensureFirewall(token, firewallName, {accessoryPorts})
ensureFirewall ==
    /\ Main("firewall_w")
    /\ \E out \in CallOutcomes :
        /\ EnsureStep("firewall", out)
        /\ IF out = "ok"
           THEN updateStep("firewall", "done", NoMsg) /\ Goto("servers") /\ UNCHANGED raised
           ELSE runStepCatch("firewall", Msg(out))
    /\ UNCHANGED <<EnsureRest, i, created, resp, polled, readyServers, accServer,
                   loadBalancer, sshDone, hasDockerfile, result, deployments>>

\* A trackServer call that is not awaited: the pipeline goes on at once.
notAwaited(writing, next) == next

\* await trackServer(s.id): the pipeline waits at the label where the write
\* of persistState settles, and goes on from there.
awaitTrackServer(writing, next) == writing

\* Step 4: runStep("servers", ...): const created = []; let i = 1
serversStep ==
    /\ Main("servers")
    /\ updateStep("servers", "running", NoMsg)
    /\ i' = 1
    /\ created' = <<>>
    /\ Goto("servers_issue")
    /\ UNCHANGED <<Rest, resp, polled, readyServers, accServer, loadBalancer,
                   sshDone, hasDockerfile, raised, result, deployments>>

\* A fan-out that requests every remaining server at once.
requestAllAtOnce(k, n) == [j \in 1..(n - k + 1) |-> ServerName(k + j - 1)]

\* One turn of for (let i = 1; i <= serverCount; i++) { const s = await
\* hetzner.createServer(...) ... }: the requests it sends before it waits.
requestInTurn(k, n) == <<ServerName(k)>>

\* i <= serverCount: hetzner.createServer(token, {name, ...}) is requested
createServerIssue ==
    /\ Main("servers_issue")
    /\ i <= serverCount
    /\ createCalls' = createCalls \o requestInTurn(i, serverCount)
    /\ Goto("servers_inflight")
    /\ UNCHANGED <<proc, cleanupVars, providerVars, apiVars, reqVars, stepVars,
                   runVars, applyCalls, lbCalls, sshCalls, kamalCalls, pollCalls, createdIds>>

\* The client's createServer settles (app server, accessories server, or the
\* server of provision).
createServerSettle ==
    /\ proc = "alive"
    /\ pc["main"] \in {"servers_inflight", "acc_inflight", "cli_inflight"}
    /\ createServer(createCalls[Len(createCalls)])
    /\ pc' = [pc EXCEPT !["main"] =
                CASE pc["main"] = "servers_inflight" -> "servers_resp"
                  [] pc["main"] = "acc_inflight" -> "acc_resp"
                  [] OTHER -> "cli_resp"]
    /\ UNCHANGED <<proc, cleanupVars, deleteReqs, registryVars, pollVars, apiVars, reqVars,
                   stepVars,
                   createCalls, applyCalls, lbCalls, sshCalls, kamalCalls, pollCalls,
                   i, created, polled, readyServers, accServer, loadBalancer,
                   sshDone, hasDockerfile, raised, result, deployments>>

\* const s = await hetzner.createServer(...): a rejection ends the step; else
\* if (mode === "dev") await trackServer(s.id)
createServerReturn ==
    /\ Main("servers_resp")
    /\ IF resp.kind = "error"
       THEN /\ runStepCatch("servers", Msg(resp.text))
            /\ UNCHANGED <<state, writeBuf>>
       ELSE /\ UNCHANGED <<stepVars, raised>>
            /\ IF mode = "dev"
               THEN /\ trackServerCall("main", resp.server.id)
                    /\ Goto(awaitTrackServer("servers_track_w", "servers_tracked"))
               ELSE UNCHANGED <<state, writeBuf>> /\ Goto("servers_tracked")
    /\ UNCHANGED <<proc, cleanupRegistered, file, sweep, providerVars, apiVars,
                   reqVars, logVars, i, created, resp, polled, readyServers,
                   accServer, loadBalancer, sshDone, hasDockerfile, result,
                   deployments>>

\* created.push(s); i++
serversNext ==
    /\ Main("servers_tracked")
    /\ created' = Append(created, resp.server)
    /\ i' = i + 1
    /\ resp' = NoResp
    /\ Goto("servers_issue")
    /\ UNCHANGED <<Rest, stepVars, polled, readyServers, accServer, loadBalancer,
                   sshDone, hasDockerfile, raised, result, deployments>>

\* The loop is over: return created; the step is done.
serversDone ==
    /\ Main("servers_issue")
    /\ i > serverCount
    /\ updateStep("servers", "done", Msg("server(s) created"))
    /\ Goto("wait-servers")
    /\ UNCHANGED <<Rest, runVars>>

\* Step 5: runStep("wait-servers", ...): Promise.all(servers.map(waitForServer))
waitServersStep ==
    /\ Main("wait-servers")
    /\ updateStep("wait-servers", "running", NoMsg)
    /\ pollCalls' = pollCalls \o [k \in 1..Len(created) |-> created[k].id]
    /\ polled' = 0
    /\ Goto("wait-servers_w")
    /\ UNCHANGED <<proc, cleanupVars, providerVars, apiVars, reqVars, createCalls,
                   applyCalls, lbCalls, sshCalls, kamalCalls, createdIds, i, created, resp, readyServers,
                   accServer, loadBalancer, sshDone, hasDockerfile, raised, result,
                   deployments>>

\* One hetzner.waitForServer(token, s.id) settles; the first rejection
\* rejects Promise.all.
waitForServer ==
    /\ Main("wait-servers_w")
    /\ polled < Len(created)
    /\ \E out \in WaitOutcomes :
        IF out = "running"
        THEN /\ polled' = polled + 1
             /\ UNCHANGED <<pc, stepVars, raised>>
        ELSE /\ runStepCatch("wait-servers", Msg(out))
             /\ UNCHANGED polled
    /\ UNCHANGED <<Rest, i, created, resp, readyServers, accServer, loadBalancer,
                   sshDone, hasDockerfile, result, deployments>>

\* Promise.all has rejected and fullDeploy has thrown; the other
\* hetzner.waitForServer calls go on polling, and one of them resolves. No
\* handler is left on its promise.
waitForServerAfterReject ==
    /\ Main(Thrown)
    /\ steps["wait-servers"] = "error"
    /\ polled + 1 < Len(created)
    /\ polled' = polled + 1
    /\ UNCHANGED <<Rest, pc, stepVars, raised, i, created, resp, readyServers,
                   accServer, loadBalancer, sshDone, hasDockerfile, result,
                   deployments>>

\* A wait that resolves with the first server that is running.
PromiseAny(settled, total) == settled >= 1

\* await Promise.all(...) resolves when every promise has resolved.
PromiseAll(settled, total) == settled = total

\* Promise.all resolved: the step is done; serverIps, serverIds, serverNames
\* are read from readyServers.
waitServersDone ==
    /\ Main("wait-servers_w")
    /\ PromiseAll(polled, Len(created))
    /\ readyServers' = [k \in 1..Len(created) |-> getServer(created[k])]
    /\ updateStep("wait-servers", "done", Msg("IPs"))
    /\ i' = 1
    /\ Goto("apply")
    /\ UNCHANGED <<Rest, created, resp, polled, accServer, loadBalancer, sshDone,
                   hasDockerfile, raised, result, deployments>>

\* for (const server of readyServers) applyFirewallToServer(...), in a try
\* whose catch throws `Applying firewall to server ${server.id}: ${errorMsg}`
applyFirewallToServer ==
    /\ Main("apply")
    /\ i <= Len(readyServers)
    /\ applyCalls' = Append(applyCalls, readyServers[i].id)
    /\ \E out \in CallOutcomes :
        IF out = "ok"
        THEN i' = i + 1 /\ UNCHANGED <<pc, stepVars, raised>>
        ELSE /\ throwOutside("Applying firewall to server",
                             [text |-> out, sid |-> readyServers[i].id])
             /\ UNCHANGED i
    /\ UNCHANGED <<proc, cleanupVars, providerVars, apiVars, reqVars, createCalls,
                   lbCalls, sshCalls, kamalCalls, pollCalls, createdIds, created, resp, polled,
                   readyServers, accServer, loadBalancer, sshDone, hasDockerfile,
                   result, deployments>>

\* Step 6: with a dedicated accessories server runStep("accessories-server")
\* and its createServer request, else the step is set done at once.
accessoriesStep ==
    /\ Main("apply")
    /\ i > Len(readyServers)
    /\ IF Dedicated
       THEN /\ updateStep("accessories-server", "running", NoMsg)
            /\ createCalls' = Append(createCalls, [base |-> "name", suffix |-> "db"])
            /\ Goto("acc_inflight")
       ELSE /\ updateStep("accessories-server", "done",
                          Msg(IF accessories = "none" THEN "Skipped" ELSE "Same server"))
            /\ Goto("load-balancer")
            /\ UNCHANGED createCalls
    /\ UNCHANGED <<proc, cleanupVars, providerVars, apiVars, reqVars, applyCalls,
                   lbCalls, sshCalls, kamalCalls, pollCalls, createdIds, runVars>>

\* const server = await hetzner.createServer(...);
\* if (mode === "dev") await trackServer(server.id)
accessoriesCreateReturn ==
    /\ Main("acc_resp")
    /\ IF resp.kind = "error"
       THEN /\ runStepCatch("accessories-server", Msg(resp.text))
            /\ UNCHANGED <<state, writeBuf>>
       ELSE /\ UNCHANGED <<stepVars, raised>>
            /\ IF mode = "dev"
               THEN /\ trackServerCall("main", resp.server.id)
                    /\ Goto(awaitTrackServer("acc_track_w", "acc_tracked"))
               ELSE UNCHANGED <<state, writeBuf>> /\ Goto("acc_tracked")
    /\ UNCHANGED <<proc, cleanupRegistered, file, sweep, providerVars, apiVars,
                   reqVars, logVars, i, created, resp, polled, readyServers,
                   accServer, loadBalancer, sshDone, hasDockerfile, result,
                   deployments>>

\* const ready = await hetzner.waitForServer(token, server.id)
accessoriesWait ==
    /\ Main("acc_tracked")
    /\ \E out \in WaitOutcomes :
        IF out = "running"
        THEN /\ Goto("acc_apply")
             /\ UNCHANGED <<stepVars, raised>>
        ELSE runStepCatch("accessories-server", Msg(out))
    /\ pollCalls' = Append(pollCalls, resp.server.id)
    /\ UNCHANGED <<proc, cleanupVars, providerVars, apiVars, reqVars, createCalls,
                   applyCalls, lbCalls, sshCalls, kamalCalls, createdIds, i, created, resp, polled,
                   readyServers, accServer, loadBalancer, sshDone, hasDockerfile,
                   result, deployments>>

\* await hetzner.applyFirewallToServer(token, firewall.id, server.id);
\* return ready - inside runStep
accessoriesApply ==
    /\ Main("acc_apply")
    /\ applyCalls' = Append(applyCalls, resp.server.id)
    /\ \E out \in CallOutcomes :
        IF out = "ok"
        THEN /\ accServer' = getServer(resp.server)
             /\ resp' = NoResp
             /\ updateStep("accessories-server", "done", Msg("IP"))
             /\ Goto("load-balancer")
             /\ UNCHANGED raised
        ELSE /\ runStepCatch("accessories-server", Msg(out))
             /\ UNCHANGED <<accServer, resp>>
    /\ UNCHANGED <<proc, cleanupVars, providerVars, apiVars, reqVars, createCalls,
                   lbCalls, sshCalls, kamalCalls, pollCalls, createdIds, i, created, polled, readyServers,
                   loadBalancer, sshDone, hasDockerfile, result, deployments>>

\* readyServers.map((s) => s.id)
serverIds == [k \in 1..Len(readyServers) |-> readyServers[k].id]

\* Step 7: if (serverCount > 1) runStep("load-balancer") else the step is
\* set done at once.
loadBalancerStep ==
    /\ Main("load-balancer")
    /\ IF serverCount > 1
       THEN updateStep("load-balancer", "running", NoMsg) /\ Goto("lb_create")
       ELSE /\ updateStep("load-balancer", "done", Msg("Skipped (single server)"))
            /\ Goto("ssh-wait")
    /\ UNCHANGED <<Rest, runVars>>

\* hetzner.createLoadBalancer(token, {name, location, serverIds}): the mock
\* client exports no createLoadBalancer, so in dry-run the call throws a
\* TypeError before any request.
createLoadBalancer ==
    /\ Main("lb_create")
    /\ IF IsDryRun
       THEN /\ runStepCatch("load-balancer",
                            Msg("hetzner.createLoadBalancer is not a function"))
            /\ UNCHANGED <<lbCalls, nextId, resp>>
       ELSE /\ lbCalls' = Append(lbCalls, [name |-> LoadBalancerName,
                                          serverIds |-> serverIds])
            /\ \/ /\ resp' = [kind |-> "lb", id |-> nextId]
                  /\ nextId' = nextId + 1
                  /\ Goto("lb_wait")
                  /\ UNCHANGED <<stepVars, raised>>
               \/ /\ runStepCatch("load-balancer", Msg("provider error"))
                  /\ UNCHANGED <<nextId, resp>>
    /\ UNCHANGED <<proc, cleanupVars, servers, mockServerId, deleteReqs,
                   registryVars, pollVars, apiVars,
                   reqVars, createCalls, applyCalls, pollCalls, sshCalls, kamalCalls, createdIds, i,
                   created, polled, readyServers, accServer, loadBalancer, sshDone,
                   hasDockerfile,
                   result, deployments>>

\* hetzner.waitForLoadBalancer(token, lb.id): returns the load balancer once
\* it has a public address, or times out.
waitForLoadBalancer ==
    /\ Main("lb_wait")
    /\ \/ /\ loadBalancer' = [id |-> resp.id, ip |-> resp.id]
          /\ resp' = NoResp
          /\ updateStep("load-balancer", "done", Msg("LB IP"))
          /\ Goto("ssh-wait")
          /\ UNCHANGED raised
       \/ /\ \E out \in {"Load balancer creation timed out", "provider error"} :
                runStepCatch("load-balancer", Msg(out))
          /\ UNCHANGED <<loadBalancer, resp>>
    /\ UNCHANGED <<Rest, i, created, polled, readyServers, accServer, sshDone,
                   hasDockerfile, result, deployments>>

\* A host list that leaves the accessories server out.
serverIpsOnly == [k \in 1..Len(readyServers) |-> readyServers[k].ip]

\* accessoriesServerIp ? [...serverIps, accessoriesServerIp] : serverIps
allServerIps ==
    [k \in 1..Len(readyServers) |-> readyServers[k].ip]
        \o (IF accServer.ip # 0 THEN <<accServer.ip>> ELSE <<>>)

\* Step 8: in dry-run the step is set done at once, else runStep("ssh-wait")
\* with Promise.all(allServerIps.map((ip) => waitForSSH(ip, key)))
sshWaitStep ==
    /\ Main("ssh-wait")
    /\ IF IsDryRun
       THEN /\ updateStep("ssh-wait", "done", Msg("[dry-run] Skipped"))
            /\ Goto("dockerfile")
            /\ UNCHANGED sshCalls
       ELSE /\ updateStep("ssh-wait", "running", NoMsg)
            /\ sshCalls' = sshCalls \o allServerIps
            /\ Goto("ssh-wait_w")
    /\ UNCHANGED <<proc, cleanupVars, providerVars, apiVars, reqVars, createCalls,
                   applyCalls, lbCalls, pollCalls, kamalCalls, createdIds, runVars>>

\* One waitForSSH(ip, key) settles: connected, or
\* `SSH connection to ${ip} timed out after ${timeoutMs / 1000}s`
waitForSSH ==
    /\ Main("ssh-wait_w")
    /\ sshDone < Len(allServerIps)
    /\ \/ /\ sshDone' = sshDone + 1
          /\ UNCHANGED <<pc, stepVars, raised>>
       \/ /\ \E ip \in Range(allServerIps) :
                runStepCatch("ssh-wait", [text |-> "SSH connection timed out after 180s",
                                          sid |-> ip])
          /\ UNCHANGED sshDone
    /\ UNCHANGED <<Rest, i, created, resp, polled, readyServers, accServer,
                   loadBalancer, hasDockerfile, result, deployments>>

sshWaitDone ==
    /\ Main("ssh-wait_w")
    /\ PromiseAll(sshDone, Len(allServerIps))
    /\ updateStep("ssh-wait", "done", Msg("SSH ready"))
    /\ Goto("dockerfile")
    /\ UNCHANGED <<Rest, runVars>>

\* Promise.all has rejected and fullDeploy has thrown; another waitForSSH
\* goes on polling and connects. No handler is left on its promise.
waitForSSHAfterReject ==
    /\ Main(Thrown)
    /\ steps["ssh-wait"] = "error"
    /\ sshDone + 1 < Len(allServerIps)
    /\ sshDone' = sshDone + 1
    /\ UNCHANGED <<Rest, pc, stepVars, raised, i, created, resp, polled,
                   readyServers, accServer, loadBalancer, hasDockerfile, result,
                   deployments>>

\* Generate the Dockerfile if the project has none (not in dry-run).
dockerfileStep ==
    /\ Main("dockerfile")
    /\ IF hasDockerfile
       THEN updateStep("dockerfile", "done", Msg("Using existing Dockerfile"))
            /\ Goto("kamal-check")
       ELSE IF IsDryRun
       THEN updateStep("dockerfile", "done", Msg("[dry-run] Would generate"))
            /\ Goto("kamal-check")
       ELSE updateStep("dockerfile", "running", NoMsg) /\ Goto("dockerfile_w")
    /\ UNCHANGED <<Rest, runVars>>

\* A step that dry-run sets done at once and the other modes run.
simpleStep(id, next) ==
    /\ Main(id)
    /\ IF IsDryRun
       THEN updateStep(id, "done", Msg("[dry-run] Skipped")) /\ Goto(next)
       ELSE updateStep(id, "running", NoMsg) /\ Goto(id \o "_w")
    /\ UNCHANGED <<Rest, runVars>>

\* The body of a running step settles.
simpleBody(id, next, failure) ==
    /\ Main(id \o "_w")
    /\ \/ updateStep(id, "done", NoMsg) /\ Goto(next) /\ UNCHANGED raised
       \/ runStepCatch(id, Msg(failure))
    /\ UNCHANGED <<Rest, i, created, resp, polled, readyServers, accServer,
                   loadBalancer, sshDone, hasDockerfile, result, deployments>>

generateDockerfile == simpleBody("dockerfile", "kamal-check", "write failed")

kamalCheckStep == simpleStep("kamal-check", "kamal-init")
\* A pipeline that goes from the Kamal check straight to the commit.
isKamalInstalledThenCommit ==
    simpleBody("kamal-check", "git-commit", "Kamal not installed. Run: gem install kamal")

isKamalInstalled ==
    simpleBody("kamal-check", "kamal-init", "Kamal not installed. Run: gem install kamal")

kamalInitStep == simpleStep("kamal-init", "git-commit")
\* A pipeline that goes from the config generation straight to the setup.
kamalInitThenSetup == simpleBody("kamal-init", "kamal-setup", "kamal init failed")

kamalInit == simpleBody("kamal-init", "git-commit", "kamal init failed")

gitCommitStep == simpleStep("git-commit", "kamal-setup")
gitCommit == simpleBody("git-commit", "kamal-setup", "git commit failed")

\* Step 10: in dry-run the step is set done at once; else the host entries
\* are appended to ~/.ssh/config (mkdir, readFile, appendFile, outside any
\* runStep) and then runStep("kamal-setup") starts: kamalSetup spawns
\* `kamal setup`.
kamalSetupStep ==
    /\ Main("kamal-setup")
    /\ IF IsDryRun
       THEN /\ updateStep("kamal-setup", "done", Msg("[dry-run] Skipped"))
            /\ Goto("save")
            /\ UNCHANGED raised
       ELSE \/ /\ updateStep("kamal-setup", "running", NoMsg)
               /\ Goto("kamal-setup_w")
               /\ UNCHANGED raised
            \/ throwOutside("", Msg("ssh config write failed"))
    /\ kamalCalls' = IF pc'["main"] = "kamal-setup_w" THEN kamalCalls + 1 ELSE kamalCalls
    /\ UNCHANGED <<proc, cleanupVars, providerVars, apiVars, reqVars, createCalls,
                   applyCalls, lbCalls, pollCalls, sshCalls, createdIds,
                   i, created, resp, polled, readyServers, accServer,
                   loadBalancer, sshDone, hasDockerfile, result, deployments>>

kamalSetup == simpleBody("kamal-setup", "save", "kamal setup failed")

\* const finalDomain = domain || `${publicIp}.nip.io` (the callers pass no
\* domain); saveDeployment(deployment); return {...}
saveDeployment ==
    /\ Main("save")
    /\ \/ /\ deployments' = deployments + 1
          /\ result' = [serverIds |-> serverIds,
                        loadBalancerId |-> loadBalancer.id,
                        loadBalancerIp |-> loadBalancer.ip,
                        domain |-> [nip |-> publicIp(loadBalancer, readyServers)]]
          /\ Goto("returned")
          /\ UNCHANGED <<raised, stepVars>>
       \/ /\ throwOutside("", Msg("deployments write failed"))
          /\ UNCHANGED <<deployments, result>>
    /\ UNCHANGED <<Rest, i, created, resp, polled, readyServers, accServer,
                   loadBalancer, sshDone, hasDockerfile>>

\* ------------------------------------------------------------ provision
\* runner.ts: in dev mode `await initCleanup(token)` comes first.
provisionStart ==
    /\ Main("cli_start")
    /\ IF mode = "dev"
       THEN /\ \E token \in Tokens : initCleanupCall(token)
            /\ pc' = [pc EXCEPT !["main"] = "cli_await_init", !["init"] = "rec_read"]
       ELSE /\ Goto("cli_validate")
            /\ UNCHANGED state
    /\ UNCHANGED <<proc, cleanupRegistered, file, writeBuf, sweep, providerVars,
                   apiVars, pipeVars>>

provisionInitDone ==
    /\ Main("cli_await_init")
    /\ pc["init"] = "done"
    /\ Goto("cli_validate")
    /\ UNCHANGED <<proc, cleanupVars, providerVars, apiVars, pipeVars>>

\* client.validateHetznerToken(token): invalid exits the process with
\* status 1; valid goes on to request the server.
validateHetznerToken ==
    /\ Main("cli_validate")
    /\ \/ /\ createCalls' = Append(createCalls, [base |-> "name", suffix |-> ""])
          /\ Goto("cli_inflight")
          /\ UNCHANGED <<proc, cleanupVars, providerVars, apiVars, reqVars,
                         stepVars, runVars, applyCalls, lbCalls, sshCalls, kamalCalls, pollCalls,
                         createdIds>>
       \/ /\ ~IsDryRun
          /\ ProcessEnds("exited")

\* const server = await client.createServer(...): a rejection is caught and
\* exits with status 1; else if (mode === "dev") await trackServer(server.id)
provisionCreateReturn ==
    /\ Main("cli_resp")
    /\ IF resp.kind = "error"
       THEN ProcessEnds("exited")
       ELSE /\ IF mode = "dev"
               THEN trackServerCall("main", resp.server.id) /\ Goto("cli_track_w")
               ELSE UNCHANGED <<state, writeBuf>> /\ Goto("cli_tracked")
            /\ UNCHANGED <<proc, cleanupRegistered, file, sweep, providerVars,
                           apiVars, pipeVars>>

\* The rest of provision: wait for the server, the initKamal stub, "Done!".
\* In dev mode the process then stays alive (await new Promise(() => {}));
\* otherwise it ends.
provisionFinish ==
    /\ Main("cli_tracked")
    /\ \E out \in WaitOutcomes :
        IF out = "running" /\ mode = "dev"
        THEN /\ Goto("cli_idle")
             /\ UNCHANGED <<proc, cleanupVars, providerVars, apiVars, pipeVars>>
        ELSE ProcessEnds("exited")

\* ------------------------------------------------------------ SpecApi
\* A client of the cleanup module calling its exported functions one after
\* the other, each awaited.
ApiIds == {101, 102}

ApiInitCleanup ==
    /\ proc = "alive" /\ pc["api"] = "api_idle" /\ apiCalls < MaxApiCalls
    /\ \E token \in Tokens : initCleanupCall(token)
    /\ pc' = [pc EXCEPT !["api"] = "api_await_init", !["init"] = "rec_read"]
    /\ apiOp' = [op |-> "initCleanup", id |-> 0]
    /\ apiPrev' = apiOp
    /\ apiCalls' = apiCalls + 1
    /\ UNCHANGED <<proc, cleanupRegistered, file, writeBuf, sweep, providerVars, pipeVars>>

ApiInitCleanupDone ==
    /\ proc = "alive" /\ pc["api"] = "api_await_init" /\ pc["init"] = "done"
    /\ pc' = [pc EXCEPT !["api"] = "api_ret"]
    /\ UNCHANGED <<proc, cleanupVars, providerVars, apiVars, pipeVars>>

ApiTrackServer ==
    /\ proc = "alive" /\ pc["api"] = "api_idle" /\ apiCalls < MaxApiCalls
    /\ \E id \in ApiIds :
        /\ trackServerCall("api", id)
        /\ apiOp' = [op |-> "trackServer", id |-> id]
    /\ pc' = [pc EXCEPT !["api"] = "api_track_w"]
    /\ apiPrev' = apiOp
    /\ apiCalls' = apiCalls + 1
    /\ UNCHANGED <<proc, cleanupRegistered, file, sweep, providerVars, pipeVars>>

ApiUntrackServer ==
    /\ proc = "alive" /\ pc["api"] = "api_idle" /\ apiCalls < MaxApiCalls
    /\ \E id \in ApiIds :
        /\ untrackServerCall("api", id)
        /\ apiOp' = [op |-> "untrackServer", id |-> id]
    /\ pc' = [pc EXCEPT !["api"] = "api_untrack_w"]
    /\ apiPrev' = apiOp
    /\ apiCalls' = apiCalls + 1
    /\ UNCHANGED <<proc, cleanupRegistered, file, providerVars, pipeVars>>

ApiRunCleanup ==
    /\ proc = "alive" /\ pc["api"] = "api_idle" /\ apiCalls < MaxApiCalls
    /\ pc' = [pc EXCEPT !["api"] = "rc_entry"]
    /\ apiOp' = [op |-> "runCleanup", id |-> 0]
    /\ apiPrev' = apiOp
    /\ apiCalls' = apiCalls + 1
    /\ UNCHANGED <<proc, cleanupVars, providerVars, pipeVars>>

\* The awaited call returns to the client.
ApiReturn ==
    /\ proc = "alive"
    /\ GoFrom("api", "api_ret", "api_idle")
    /\ UNCHANGED <<proc, cleanupVars, providerVars, apiVars, pipeVars>>

\* What a process finds when it starts on a machine with no cleanup file.
FreshMachine ==
    /\ file = NoFile /\ servers = {}
    /\ registry = [kind \in Kinds |-> <<>>]
    /\ fwRules = <<>>

\* What it finds when a killed dev run left its cleanup file behind: the
\* file lists that run's servers, which still exist at the provider.
OrphanedMachine ==
    /\ file = [hetznerToken |-> "T", serverIds |-> OrphanIds]
    /\ servers = Range(OrphanIds)
    /\ registry = [kind \in Kinds |-> <<>>]
    /\ fwRules = <<>>

\* cleanup.ts module state when it is loaded.
InitCleanupModule ==
    /\ proc = "alive"
    /\ state = [hetznerToken |-> NoToken, serverIds |-> <<>>]
    /\ cleanupRegistered = FALSE
    /\ writeBuf = [t \in Tasks |-> NoFile]
    /\ sweep = [t \in Tasks |-> NoSweep]
    /\ nextId = FirstId
    /\ mockServerId = MockFirstId
    /\ deleteReqs = <<>>
    /\ postReqs = <<>>
    /\ ens = NoEns
    /\ now = 0
    /\ wait = NoWait

\* fullDeploy: const steps = STEPS.map((s) => ({...s, status: "pending"}))
InitPipeline ==
    /\ steps = [id \in StepIds |-> "pending"]
    /\ stepMsg = [id \in StepIds |-> NoMsg]
    /\ progress = NoProgress
    /\ kept = <<>>
    /\ i = 0
    /\ created = <<>>
    /\ resp = NoResp
    /\ polled = 0
    /\ readyServers = <<>>
    /\ accServer = NoServer
    /\ loadBalancer = NoLb
    /\ sshDone = 0
    /\ hasDockerfile = FALSE
    /\ raised = NoError
    /\ result = NoResp
    /\ deployments = 0
    /\ createCalls = <<>>
    /\ applyCalls = <<>>
    /\ lbCalls = <<>>
    /\ sshCalls = <<>>
    /\ kamalCalls = 0
    /\ pollCalls = <<>>
    /\ createdIds = {}

InitApi ==
    /\ InitCleanupModule
    /\ FreshMachine \/ OrphanedMachine
    /\ disk \in Disks
    /\ InitPipeline
    /\ entry = "api" /\ mode = "dev" /\ serverCount = 1 /\ accessories = "none"
    /\ pc = [t \in Tasks |-> IF t = "api" THEN "api_idle" ELSE "off"]
    /\ apiOp = NoOp /\ apiPrev = NoOp /\ apiCalls = 0

NextApi ==
    \/ ApiInitCleanup
    \/ ApiInitCleanupDone
    \/ ApiTrackServer
    \/ ApiUntrackServer
    \/ ApiRunCleanup
    \/ ApiReturn
    \/ recoverOrphanedServers
    \/ initCleanupRegister
    \/ \E t \in {"init", "api"} : runCleanupEntry(t)
    \/ \E t \in {"init", "api"} : runCleanupDelete(t)
    \/ \E t \in {"init", "api"} : runCleanupFinish(t)
    \/ \E t \in {"init", "api"} : clearPersistedState(t)
    \/ persistState("api")
    \/ Crash

\* A client calling the exported functions of cleanup.ts one after the other.
SpecApi == InitApi /\ [][NextApi]_vars

\* ------------------------------------------------------------ SpecEnsure
\* A client of the real provider client calling ensureSSHKey and
\* ensureFirewall one after the other, each awaited, as the second and
\* third step of successive fullDeploy runs do.
EnsureNames == {ResourceName, "ship-it-other"}

\* ensureSSHKey(token, name, key) / ensureFirewall(token, name) is called.
EnsureCall ==
    /\ proc = "alive" /\ pc["api"] = "api_idle" /\ apiCalls < MaxEnsureCalls
    /\ \E kind \in Kinds, name \in EnsureNames, ports \in BOOLEAN :
            /\ kind = "ssh_key" => ~ports
            /\ ens' = [kind |-> kind, name |-> name, ports |-> ports]
    /\ pc' = [pc EXCEPT !["api"] = "ens_get"]
    /\ apiCalls' = apiCalls + 1
    /\ resp' = NoResp
    /\ UNCHANGED <<proc, cleanupVars, servers, nextId, mockServerId, deleteReqs,
                   pollVars, registry, postReqs, fwRules, apiOp, apiPrev, reqVars,
                   stepVars, i,
                   created, polled, readyServers, accServer, loadBalancer,
                   sshDone, hasDockerfile, raised, result, deployments, logVars>>

\* const existing = await get...ByName(token, name): hetznerFetch throws, or
\* the list is searched; if (existing) return existing.
EnsureGet ==
    /\ proc = "alive" /\ pc["api"] = "ens_get"
    /\ \/ /\ resp' = [kind |-> "error"]
          /\ pc' = [pc EXCEPT !["api"] = "api_ret"]
       \/ IF NeedsCreate(registry[ens.kind], ens.name)
          THEN /\ pc' = [pc EXCEPT !["api"] = "ens_create"]
               /\ UNCHANGED resp
          ELSE /\ resp' = [kind |-> "existing",
                           ports |-> ens.kind = "firewall" /\ RulesOf(ens.name)]
               /\ pc' = [pc EXCEPT !["api"] = "api_ret"]
    /\ UNCHANGED <<proc, cleanupVars, providerVars, apiVars, reqVars, stepVars, i,
                   created, polled, readyServers, accServer, loadBalancer,
                   sshDone, hasDockerfile, raised, result, deployments, logVars>>

\* return createSSHKey(...) / createFirewall(...): POST, which the provider
\* answers with the new resource or rejects.
EnsureCreate ==
    /\ proc = "alive" /\ pc["api"] = "ens_create"
    /\ postReqs' = Append(postReqs, ens)
    /\ \/ /\ registry' = [registry EXCEPT ![ens.kind] = Append(@, ens.name)]
          /\ fwRules' = IF ens.kind = "firewall"
                         THEN Append(fwRules, createFirewall(ens.ports))
                         ELSE fwRules
          /\ resp' = [kind |-> "created",
                      ports |-> ens.kind = "firewall" /\ createFirewall(ens.ports)]
       \/ /\ resp' = [kind |-> "error"]
          /\ UNCHANGED <<registry, fwRules>>
    /\ pc' = [pc EXCEPT !["api"] = "api_ret"]
    /\ UNCHANGED <<proc, cleanupVars, servers, nextId, mockServerId, deleteReqs,
                   pollVars, ens, apiVars, reqVars, stepVars, i,
                   created, polled, readyServers, accServer, loadBalancer,
                   sshDone, hasDockerfile, raised, result, deployments, logVars>>

InitEnsure ==
    /\ InitCleanupModule
    /\ disk = "unreliable"
    /\ FreshMachine
    /\ InitPipeline
    /\ entry = "api" /\ mode = "production" /\ serverCount = 1
    /\ accessories = "none"
    /\ pc = [t \in Tasks |-> IF t = "api" THEN "api_idle" ELSE "off"]
    /\ apiOp = NoOp /\ apiPrev = NoOp /\ apiCalls = 0

NextEnsure ==
    \/ EnsureCall
    \/ EnsureGet
    \/ EnsureCreate
    \/ ApiReturn
    \/ Crash

\* Successive ensure calls against one provider account.
SpecEnsure == InitEnsure /\ [][NextEnsure]_vars

\* ------------------------------------------------------------ SpecPoll
\* The three polling loops: waitForServer and waitForLoadBalancer of the
\* real client, and waitForSSH.  Time is counted in seconds and only moves
\* forward; a request is answered after at most MaxLatency seconds.
Loops == {"server", "load-balancer", "ssh"}

\* setTimeout(resolve, 2000) in the provider loops, 3000 in waitForSSH.
Interval(loop) == IF loop = "ssh" THEN 3 ELSE 2

\* What one poll can answer: getServer's server.status, getLoadBalancer
\* with or without public_net.ipv4.ip, ssh's exit code; or the call throws.
Answers(loop) ==
    CASE loop = "server" -> {"initializing", "starting", "running", "off", "throws"}
      [] loop = "load-balancer" -> {"address", "no-address", "throws"}
      [] OTHER -> {"exit0", "exit255", "throws"}

\* A test that lets every answer through.
AnyAnswer(loop, ans) == ans # "throws"

\* server.status === "running" / lb.public_net?.ipv4?.ip /
\* result.exitCode === 0
Ready(loop, ans) ==
    CASE loop = "server" -> ans = "running"
      [] loop = "load-balancer" -> ans = "address"
      [] OTHER -> ans = "exit0"

\* hetznerFetch: throw new Error(data.error?.message || `HTTP ${status}`)
ProviderError == [text |-> "provider error", after |-> NoDuration]

\* A timeout reported as the provider's error.
TimeoutAsProviderError(loop, timeout) == ProviderError

\* The Error thrown after the while loop: only waitForSSH's message states
\* the duration, `timed out after ${timeoutMs / 1000}s`.
TimeoutError(loop, timeout) ==
    CASE loop = "server" ->
            [text |-> "Server creation timed out", after |-> NoDuration]
      [] loop = "load-balancer" ->
            [text |-> "Load balancer creation timed out", after |-> NoDuration]
      [] OTHER ->
            [text |-> "SSH connection timed out", after |-> timeout]

PollRest == <<proc, pc, cleanupVars, servers, nextId, mockServerId, deleteReqs,
              registryVars, apiVars, pipeVars>>

\* The call: const start = Date.now()
PollCall ==
    /\ wait.pc = "off"
    /\ \E loop \in Loops, timeout \in 0..MaxPollTimeout :
        wait' = [NoWait EXCEPT !.loop = loop, !.pc = "test", !.start = now,
                               !.timeout = timeout]
    /\ UNCHANGED <<now, PollRest>>

\* while (Date.now() - start < timeoutMs) ... throw new Error(...)
PollTest ==
    /\ wait.pc = "test"
    /\ wait' = IF now - wait.start < wait.timeout
               THEN [wait EXCEPT !.pc = "get"]
               ELSE [wait EXCEPT !.pc = "failed",
                                 !.error = TimeoutError(wait.loop, wait.timeout)]
    /\ UNCHANGED <<now, PollRest>>

\* One poll: await getServer / getLoadBalancer / ssh(ip, "echo ok").  The
\* provider loops let a thrown error out; waitForSSH catches it.
PollGet ==
    /\ wait.pc = "get"
    /\ \E d \in 0..MaxLatency : now' = now + d
    /\ \E ans \in Answers(wait.loop) :
        wait' = IF ans = "throws" /\ wait.loop # "ssh"
                THEN [wait EXCEPT !.pc = "failed", !.polls = @ + 1,
                                  !.seen = ans, !.error = ProviderError]
                ELSE [wait EXCEPT !.pc = IF Ready(wait.loop, ans) THEN "returned"
                                         ELSE "sleep",
                                  !.polls = @ + 1, !.seen = ans]
    /\ UNCHANGED PollRest

\* await new Promise((resolve) => setTimeout(resolve, interval))
PollSleep ==
    /\ wait.pc = "sleep"
    /\ now' = now + Interval(wait.loop)
    /\ wait' = [wait EXCEPT !.pc = "test"]
    /\ UNCHANGED PollRest

InitPoll ==
    /\ InitCleanupModule
    /\ disk = "unreliable"
    /\ FreshMachine
    /\ InitPipeline
    /\ entry = "api" /\ mode = "production" /\ serverCount = 1
    /\ accessories = "none"
    /\ pc = [t \in Tasks |-> "off"]
    /\ apiOp = NoOp /\ apiPrev = NoOp /\ apiCalls = 0

NextPoll == PollCall \/ PollTest \/ PollGet \/ PollSleep

\* One call of a polling loop.
SpecPoll == InitPoll /\ [][NextPoll]_vars

\* ------------------------------------------------------------ Spec
\* One process: the TUI running fullDeploy, or the non-interactive runner.
Modes == {"production", "dev", "dry-run"}

AccessoryModes == {"none", "same-server", "dedicated-server"}

\* The process as started: the TUI, whose Complete screen calls fullDeploy
\* with up to maxCount replicas, or the non-interactive runner (provision).
InitProcess(maxCount) ==
    /\ InitCleanupModule
    /\ disk = "unreliable"
    /\ InitPipeline
    /\ \/ /\ entry = "tui"
          /\ serverCount \in 1..maxCount
          /\ accessories \in AccessoryModes
          /\ pc = [t \in Tasks |-> IF t = "main" THEN "tui_start" ELSE "off"]
       \/ /\ entry = "cli"
          /\ serverCount = 1
          /\ accessories = "none"
          /\ pc = [t \in Tasks |-> IF t = "main" THEN "cli_start" ELSE "off"]
    /\ apiOp = NoOp /\ apiPrev = NoOp /\ apiCalls = 0

\* Any mode, on a machine with no cleanup file.
Init ==
    /\ InitProcess(MaxServerCount)
    /\ mode \in Modes
    /\ FreshMachine

\* A dev-mode start on a machine where a killed dev run left its file.
InitRecover ==
    /\ InitProcess(MaxRecoverServerCount)
    /\ mode = "dev"
    /\ OrphanedMachine

Next ==
    \/ AppSetToken
    \/ fullDeployStart
    \/ detectProject
    \/ sshKeyStep
    \/ ensureSSHKey
    \/ firewallStep
    \/ ensureFirewall
    \/ serversStep
    \/ createServerIssue
    \/ createServerSettle
    \/ createServerReturn
    \/ serversNext
    \/ serversDone
    \/ waitServersStep
    \/ waitForServer
    \/ waitForServerAfterReject
    \/ waitServersDone
    \/ applyFirewallToServer
    \/ accessoriesStep
    \/ accessoriesCreateReturn
    \/ accessoriesWait
    \/ accessoriesApply
    \/ loadBalancerStep
    \/ createLoadBalancer
    \/ waitForLoadBalancer
    \/ sshWaitStep
    \/ waitForSSH
    \/ waitForSSHAfterReject
    \/ sshWaitDone
    \/ dockerfileStep
    \/ generateDockerfile
    \/ kamalCheckStep
    \/ isKamalInstalled
    \/ kamalInitStep
    \/ kamalInit
    \/ gitCommitStep
    \/ gitCommit
    \/ kamalSetupStep
    \/ kamalSetup
    \/ saveDeployment
    \/ provisionStart
    \/ provisionInitDone
    \/ validateHetznerToken
    \/ provisionCreateReturn
    \/ provisionFinish
    \/ persistState("main")
    \/ recoverOrphanedServers
    \/ initCleanupRegister
    \/ handleExit
    \/ handleExitDone
    \/ \E t \in {"init", "sig"} : runCleanupEntry(t)
    \/ \E t \in {"init", "sig"} : runCleanupDelete(t)
    \/ \E t \in {"init", "sig"} : runCleanupFinish(t)
    \/ \E t \in {"init", "sig"} : clearPersistedState(t)
    \/ Crash

\* The process on a machine with no cleanup file, in any mode.
Spec == Init /\ [][Next]_vars

\* The dev-mode process on a machine where a killed dev run left its file.
SpecRecover == InitRecover /\ [][Next]_vars

\* The process of Spec with a user who may also press Ctrl+C in the TUI;
\* requests have several replicas or accessories, not both.
InitInterrupt ==
    /\ InitProcess(MaxInterruptServerCount)
    /\ serverCount = 1 \/ accessories = "none"
    /\ mode \in Modes
    /\ FreshMachine

NextInterrupt == Next \/ ctrlC

SpecInterrupt == InitInterrupt /\ [][NextInterrupt]_vars

\* ------------------------------------------------------------ properties

\* C1: in dev mode, whenever the process has died, every server the provider
\* created for the run either is listed in the persisted cleanup file or has
\* already been deleted.
C1_NoOrphanAtDeath ==
    (mode = "dev" /\ proc # "alive")
        => \A id \in createdIds : id \in servers => id \in Range(FileIds)

\* C2: whenever trackServer(id) has returned, the persisted cleanup file
\* lists id.
C2_TrackedIsPersisted ==
    (pc["api"] = "api_ret" /\ apiOp.op = "trackServer")
        => apiOp.id \in Range(FileIds)

\* C3: in a process that started with the file {T, [101, 102]} and called
\* initCleanup(T), when the first createServer call of the run is issued
\* exactly one delete request has been issued for 101 and one for 102, none
\* for any other id, and the persisted state is empty.
C3_RecoveredBeforeFirstCreate ==
    [][(createCalls = <<>> /\ createCalls' # <<>>)
        => (deleteReqs' = OrphanIds /\ file' = NoFile)]_vars

\* C4: a runCleanup call that directly follows another runCleanup call
\* issues no delete request, changes neither the tracked ids, the file nor
\* the provider's servers, and returns without entering the delete loop.
C4_SecondRunCleanupIsNoOp ==
    [][(apiOp.op = "runCleanup" /\ apiPrev.op = "runCleanup"
            /\ pc["api"] # "api_idle" /\ proc' = "alive")
        => (/\ deleteReqs' = deleteReqs
            /\ state' = state
            /\ file' = file
            /\ servers' = servers
            /\ pc'["api"] \in {"api_ret", "api_idle"})]_vars

\* C4, its case: the first of two consecutive runCleanup calls deleted the
\* one tracked server, and the second has returned.
C4_Witness ==
    /\ apiOp.op = "runCleanup" /\ apiPrev.op = "runCleanup"
    /\ pc["api"] = "api_ret"
    /\ Len(deleteReqs) = 1

\* C5: from the first applyFirewallToServer call on (until the accessories
\* step starts), exactly serverCount createServer calls have been issued, in
\* the order of their names, and waitForServer has been called for, and has
\* returned for, exactly the serverCount servers they created.
C5_CreatedAndPolledBeforeApply ==
    (applyCalls # <<>> /\ steps["accessories-server"] = "pending")
        => /\ Len(createCalls) = serverCount
           /\ Len(created) = serverCount
           /\ \A k \in 1..serverCount : created[k].name = createCalls[k]
           /\ pollCalls = [k \in 1..serverCount |-> created[k].id]
           /\ polled = serverCount

\* C5, its case: the firewall is being applied to the last of
\* MaxServerCount servers.
C5_Witness ==
    /\ serverCount = MaxServerCount
    /\ Len(applyCalls) = MaxServerCount
    /\ steps["accessories-server"] = "pending"

\* C6: once the load-balancer step has ended, with serverCount > 1 exactly
\* one createLoadBalancer call has been made and its targets are the ids of
\* the serverCount created servers; with serverCount = 1 no call has been
\* made and the step is done.
C6_LoadBalancerIffSeveral ==
    steps["load-balancer"] \in {"done", "error"}
        => IF serverCount > 1
           THEN /\ Len(lbCalls) = 1
                /\ lbCalls[1].serverIds = [k \in 1..serverCount |-> created[k].id]
           ELSE lbCalls = <<>> /\ steps["load-balancer"] = "done"

\* C7: with serverCount = 3, when fullDeploy raises because applying the
\* firewall failed on the second server, the servers and wait-servers steps
\* are done, a step has status error with a message that mentions that
\* server's id, and the load-balancer and ssh-wait steps are pending.
C7_ApplyFailureReported ==
    (/\ pc["main"] = Thrown
     /\ raised.prefix = "Applying firewall to server"
     /\ serverCount = 3
     /\ Len(applyCalls) = 2)
        => /\ steps["servers"] = "done"
           /\ steps["wait-servers"] = "done"
           /\ \E id \in StepIds :
                steps[id] = "error" /\ stepMsg[id].sid = readyServers[2].id
           /\ steps["load-balancer"] = "pending"
           /\ steps["ssh-wait"] = "pending"

\* C8: when fullDeploy raises, one step has status error and carries the
\* failure message, every step before it in STEPS is done and every step
\* after it is pending.
C8_FailingStepReported ==
    pc["main"] = Thrown
        => \E k \in 1..Len(STEPS) :
            /\ steps[STEPS[k]] = "error"
            /\ stepMsg[STEPS[k]].text = raised.text
            /\ \A j \in 1..(k - 1) : steps[STEPS[j]] = "done"
            /\ \A j \in (k + 1)..Len(STEPS) : steps[STEPS[j]] = "pending"

\* The messages of the steps fullDeploy sets done without running them.
SkipTexts ==
    {"[dry-run]", "[dry-run] Skipped", "[dry-run] Would generate", "Skipped",
     "Same server", "Skipped (single server)", "Using existing Dockerfile"}

\* C9 as stated: all steps start pending; while the process lives a step goes
\* from pending to running only, from running to done or error only, never
\* leaves done or error, and once any step is error no status changes.
C9_LifecycleThroughRunning ==
    /\ \A id \in StepIds : steps[id] = "pending"
    /\ [][proc' = "alive" =>
            /\ \A id \in StepIds :
                \/ steps'[id] = steps[id]
                \/ steps[id] = "pending" /\ steps'[id] = "running"
                \/ steps[id] = "running" /\ steps'[id] \in {"done", "error"}
            /\ (\E id \in StepIds : steps[id] = "error") => steps' = steps]_vars

\* C9 amended: all steps start pending; while the process lives a step that
\* is executed goes from pending to running and from running to done or
\* error; a step that is skipped or simulated goes from pending straight to
\* done, with a skip message; no status goes backwards, and once any step is
\* error no status changes.
C9_Lifecycle ==
    /\ \A id \in StepIds : steps[id] = "pending"
    /\ [][proc' = "alive" =>
            /\ \A id \in StepIds :
                \/ steps'[id] = steps[id]
                \/ steps[id] = "pending" /\ steps'[id] = "running"
                \/ steps[id] = "pending" /\ steps'[id] = "done"
                    /\ stepMsg'[id].text \in SkipTexts
                \/ steps[id] = "running" /\ steps'[id] \in {"done", "error"}
            /\ (\E id \in StepIds : steps[id] = "error") => steps' = steps]_vars

\* C9, its case: a run in which a step was skipped (ssh-key, in dry-run) has
\* raised with a step in error.
C9_Witness ==
    /\ pc["main"] = Thrown
    /\ stepMsg["ssh-key"].text = "[dry-run]"
    /\ \E id \in StepIds : steps[id] = "error"

\* C10: the address of a completed run's default domain is the load
\* balancer's address when serverCount > 1, and then none of the servers'
\* addresses; it is the sole server's address when serverCount = 1.
C10_ExternalAddress ==
    pc["main"] = "returned"
        => IF serverCount > 1
           THEN /\ loadBalancer # NoLb
                /\ result.domain.nip = loadBalancer.ip
                /\ \A k \in 1..Len(readyServers) :
                        result.domain.nip # readyServers[k].ip
           ELSE /\ Len(readyServers) = 1
                /\ result.domain.nip = readyServers[1].ip

\* C10, its case: a run with MaxServerCount servers behind a load balancer
\* has completed.
C10_Witness ==
    /\ pc["main"] = "returned"
    /\ serverCount = MaxServerCount
    /\ serverCount > 1
    /\ result.domain.nip = loadBalancer.ip

\* C11: in dev mode, once the servers step is done and while no runCleanup
\* sweep has been started, every id the serverCount createServer calls
\* returned is listed in the persisted cleanup file, and until the
\* accessories step starts the file lists exactly those ids.
C11_CreatedIdsPersisted ==
    (/\ mode = "dev" /\ entry = "tui" /\ proc = "alive"
     /\ steps["servers"] = "done"
     /\ pc["sig"] = "off" /\ pc["init"] = "done" /\ deleteReqs = <<>>)
        => /\ Len(created) = serverCount
           /\ \A k \in 1..serverCount : created[k].id \in Range(FileIds)
           /\ steps["accessories-server"] = "pending"
                => FileIds = [k \in 1..serverCount |-> created[k].id]

\* C12: the k-th createServer call for an app server, and the server it
\* returns, carry the request's name alone when serverCount = 1 and the name
\* followed by -k when serverCount > 1; every createLoadBalancer call
\* carries the name followed by -lb.
C12_ResourceNames ==
    entry = "tui" =>
        /\ \A k \in 1..Len(createCalls) :
            k <= serverCount =>
                /\ createCalls[k].base = "name"
                /\ createCalls[k].suffix =
                        IF serverCount = 1 THEN ""
                        ELSE <<"1", "2", "3", "4", "5", "6", "7", "8", "9", "10">>[k]
        /\ \A k \in 1..Len(created) : created[k].name = createCalls[k]
        /\ \A j \in 1..Len(lbCalls) :
            lbCalls[j].name = [base |-> "name", suffix |-> "lb"]

\* C12, its case: MaxServerCount servers have been created and the load
\* balancer for them has been requested.
C12_Witness ==
    /\ serverCount = MaxServerCount
    /\ Len(created) = MaxServerCount
    /\ Len(lbCalls) = 1

\* C13: in dev mode, once initCleanup has finished, every id that is
\* tracked when the interrupt arrives (SIGINT, SIGTERM, Ctrl+C) stays
\* waiting for the sweep until the step that sends its DELETE request, the
\* sweep ends only when no id waits, and the TUI process exits only after
\* runCleanup has returned; in production and dry-run mode no runCleanup is
\* started, no DELETE request is sent and no server disappears.
C13_Waiting ==
    CASE pc["sig"] = "rc_entry" -> Range(state.serverIds)
      [] pc["sig"] = "rc_loop" ->
            LET arr == IF sweep["sig"].live THEN state.serverIds
                       ELSE sweep["sig"].arr
            IN {arr[k] : k \in (sweep["sig"].i + 1)..Len(arr)}
      [] OTHER -> {}

C15_Count(kind, name) ==
    Cardinality({k \in 1..Len(registry[kind]) : registry[kind][k] = name})

C15_EnsureIdempotent ==
    [][/\ \A kind \in {"ssh_key", "firewall"} :
            \A name \in {"ship-it-name", "ship-it-other"} :
                /\ C15_Count(kind, name)' <= 1
                /\ C15_Count(kind, name)' >= C15_Count(kind, name)
       /\ postReqs' # postReqs /\ proc' = "alive"
            => /\ Len(postReqs') = Len(postReqs) + 1
               /\ postReqs'[Len(postReqs')] = ens
               /\ C15_Count(ens.kind, ens.name) = 0
       /\ (pc["api"] = "ens_get" /\ C15_Count(ens.kind, ens.name) = 1
           /\ proc' = "alive")
            => /\ postReqs' = postReqs /\ registry' = registry
               /\ pc'["api"] = "api_ret"
               /\ resp'.kind \in {"existing", "error"}
       /\ (pc'["api"] = "api_ret" /\ resp'.kind \in {"existing", "created"})
            => C15_Count(ens.kind, ens.name)' = 1
      ]_vars

\* C15, its case: five ensure calls under one name have been made, the
\* later ones found what the earlier ones created, and the provider holds
\* one SSH key and one firewall of that name after two POST requests.
C15_Witness ==
    /\ apiCalls = MaxEnsureCalls
    /\ pc["api"] = "api_ret" /\ resp.kind = "existing"
    /\ ens.name = "ship-it-name"
    /\ registry = [kind \in {"ssh_key", "firewall"} |-> <<"ship-it-name">>]
    /\ Len(postReqs) = 2

\* C16: waitForServer returns only after a poll that answered status
\* running; a call whose timeout has elapsed when the loop condition is
\* tested fails with 'Server creation timed out'; and the number of polls of
\* one call never exceeds the number of intervals that fit in the timeout,
\* so the loop ends.
C16_WaitForServer ==
    [][wait'.loop = "server" =>
        /\ wait'.pc = "returned" => wait'.seen = "running" /\ wait'.polls >= 1
        /\ (wait.pc = "test" /\ now - wait.start >= wait.timeout)
            => /\ wait'.pc = "failed"
               /\ wait'.error.text = "Server creation timed out"
        /\ (wait'.pc = "failed" /\ wait'.error.text = "Server creation timed out")
            => /\ now' - wait'.start >= wait'.timeout
               /\ wait'.seen # "running"
        /\ wait'.polls <= (wait'.timeout + 1) \div 2
        /\ wait'.pc \in {"test", "get", "sleep", "returned", "failed"}
        /\ wait.pc \in {"returned", "failed"} => wait' = wait
      ]_vars

\* C16, its case: waitForServer has polled at least twice, the earlier
\* polls found the server not running, and it returned the running server.
C16_Witness ==
    /\ wait.loop = "server" /\ wait.pc = "returned"
    /\ wait.polls >= 2 /\ wait.seen = "running"

\* C17 as stated: whenever a polling loop (server status, load-balancer
\* address, SSH) ends because its timeout is exceeded, the error it throws
\* states the duration N of the timeout ('timed out after Ns') and is not
\* the error of a failed provider request.
C17_TimedOutAfterN ==
    [][(wait.pc = "test" /\ wait'.pc = "failed")
        => /\ wait'.error.after = wait.timeout
           /\ wait'.error.text # "provider error"
      ]_vars

\* C17, amended: whenever a polling loop ends because its timeout is
\* exceeded, the error it throws has the message of that loop's timeout,
\* which is neither the message of a failed provider request nor an answer
\* of a poll; the SSH loop's message states the duration, the two provider
\* loops' messages do not.  An error thrown by a poll of a provider loop
\* leaves the loop as it is, and the SSH loop lets no error of a poll out.
C17_TimeoutDistinct ==
    [][/\ (wait.pc = "test" /\ wait'.pc = "failed")
            => /\ wait'.error.text =
                    CASE wait.loop = "server" -> "Server creation timed out"
                      [] wait.loop = "load-balancer" -> "Load balancer creation timed out"
                      [] OTHER -> "SSH connection timed out"
               /\ wait'.error.text # "provider error"
               /\ wait'.error.text \notin
                    {"initializing", "starting", "running", "off", "throws",
                     "address", "no-address", "exit0", "exit255"}
               /\ wait'.error.after =
                    IF wait.loop = "ssh" THEN wait.timeout ELSE -1
       /\ (wait.pc = "get" /\ wait'.pc = "failed")
            => /\ wait.loop # "ssh"
               /\ wait'.seen = "throws"
               /\ wait'.error = [text |-> "provider error", after |-> -1]
      ]_vars

\* C17, its case: each kind of loop has been seen to end on its timeout
\* after polling; here the SSH loop, whose polls threw or exited non-zero.
C17_Witness ==
    /\ wait.pc = "failed" /\ wait.loop = "ssh"
    /\ wait.polls >= 2
    /\ wait.error.after = wait.timeout /\ wait.timeout > 0

\* C18: a run in dry-run mode changes nothing outside the process: no
\* request reaches the real provider (no server, key, firewall or load
\* balancer is requested there), none of the steps that run ssh-keygen,
\* ssh, the Dockerfile generator, git or kamal is ever executing, no id is
\* tracked and no cleanup file written, and no file of the user's is
\* written: the deployments store keeps the records it had.
C18_DryRunNoRequests ==
    /\ servers = {} /\ nextId = 1 /\ createdIds = {}
    /\ registry = [kind \in {"ssh_key", "firewall"} |-> <<>>]
    /\ postReqs = <<>> /\ lbCalls = <<>> /\ deleteReqs = <<>>
    /\ \A id \in {"ssh-key", "ssh-wait", "dockerfile", "kamal-check",
                  "kamal-init", "git-commit", "kamal-setup"} :
            steps[id] \in {"pending", "done"}
    /\ sshDone = 0
    /\ state.serverIds = <<>> /\ file = [absent |-> TRUE]
    /\ \A t \in {"main", "init", "sig", "api"} : writeBuf[t] = [absent |-> TRUE]

C18_DryRunNoSideEffects ==
    mode = "dry-run" => C18_DryRunNoRequests /\ deployments = 0

\* C19: while fullDeploy runs, a step of the program that changes the
\* status of a pipeline step changes the status of exactly one, and calls
\* the progress callback exactly once, with the list of all thirteen steps
\* in pipeline order carrying the statuses after the change; a step of the
\* program that changes no status does not call it.
C19_ProgressPerTransition ==
    [][proc' = "alive" =>
        LET changed == {id \in DOMAIN steps : steps'[id] # steps[id]} IN
        /\ Cardinality(changed) <= 1
        /\ changed # {}
            => /\ progress'.calls = progress.calls + 1
               /\ Len(progress'.last) = 13
               /\ \A k \in 1..13 :
                    /\ progress'.last[k].id =
                        <<"detect", "ssh-key", "firewall", "servers",
                          "wait-servers", "accessories-server", "load-balancer",
                          "ssh-wait", "dockerfile", "kamal-check", "kamal-init",
                          "git-commit", "kamal-setup">>[k]
                    /\ progress'.last[k].status = steps'[progress'.last[k].id]
        /\ changed = {} => progress' = progress
      ]_vars

\* C19, its case: a production run has returned after the callback was
\* called for each transition of each of the thirteen steps, the last call
\* carrying thirteen steps done.
C19_Witness ==
    /\ mode = "production" /\ pc["main"] = "returned"
    /\ progress.calls >= 24
    /\ \A k \in 1..13 : progress.last[k].status = "done"

\* C20: while the process lives, an id listed in the cleanup file stays
\* listed by every step, unless the server no longer exists at the provider
\* (its DELETE succeeded) or the step belongs to an untrackServer call for
\* that id.
C20_ListedUntilDeleted ==
    [][proc' = "alive" =>
        \A id \in Range(FileIds) :
            \/ id \in Range(FileIds')
            \/ id \notin servers'
            \/ apiOp = [op |-> "untrackServer", id |-> id]
      ]_vars

\* C21: the recovery of initCleanup sends DELETE requests only during the
\* first initCleanup call of the process, that is, before the handlers are
\* registered; a later initCleanup call sends none.
C21_RecoveryOnlyOnFirstInit ==
    [][(/\ pc["init"] = "rc_loop"
        /\ sweep'["init"] # sweep["init"]
        /\ deleteReqs' # deleteReqs)
            => ~cleanupRegistered
      ]_vars

\* C22: whatever runCleanup calls overlap (the recovery of initCleanup, a
\* signal handler, the Ctrl+C handler), no server id is the subject of two
\* DELETE requests of one process.
C22_AtMostOneDeletePerId ==
    \A j, k \in 1..Len(deleteReqs) : deleteReqs[j] = deleteReqs[k] => j = k

\* C23: in dev mode, at the step with which the runCleanup of an interrupt
\* returns, no trackServer call of the pipeline still writing, every id
\* held in memory (tracked since the sweep emptied the list) has received
\* a DELETE request or is listed in the cleanup file.
C23_TrackedDuringSweep ==
    [][(/\ mode = "dev" /\ entry = "tui" /\ pc["init"] = "done"
        /\ pc["sig"] = "rc_unlink" /\ pc'["sig"] = "exit0"
        /\ pc["main"] \notin {"servers_track_w", "acc_track_w"})
            => \A id \in Range(state'.serverIds) :
                    id \in Range(deleteReqs') \/ id \in Range(FileIds')
      ]_vars

\* C24: while a runCleanup loop of a client's call is in progress, the
\* cleanup file lists every id of the list being swept, and no step taken
\* during the loop, a crash included, changes the file; the file is removed
\* only by the step that follows the last DELETE attempt.
C24_NoPartialSweep ==
    [][\A t \in {"api", "init"} :
        /\ pc[t] = "rc_loop"
            => /\ \A k \in 1..Len(state.serverIds) :
                    state.serverIds[k] \in Range(FileIds)
               /\ file' = file
        /\ (file # NoFile /\ file' = NoFile)
            => \E u \in {"api", "init"} :
                /\ pc[u] = "rc_unlink"
                /\ sweep[u] = NoSweep
      ]_vars

\* C25: in a dev run that no sweep has touched, when fullDeploy issues a
\* createServer request every server it has created so far is tracked in
\* memory and no write of trackServer is pending; the same holds, for the
\* servers concerned, when it starts a status poll or a firewall apply.
C25_TrackedBeforeNextCall ==
    [][(/\ mode = "dev" /\ entry = "tui" /\ deleteReqs = <<>>
        /\ proc' = "alive")
        => /\ createCalls' # createCalls
                => /\ writeBuf["main"] = NoFile
                   /\ createdIds \subseteq Range(state.serverIds)
           /\ pollCalls' # pollCalls
                => /\ writeBuf["main"] = NoFile
                   /\ \A k \in (Len(pollCalls) + 1)..Len(pollCalls') :
                        pollCalls'[k] \in Range(state.serverIds)
           /\ applyCalls' # applyCalls
                => /\ writeBuf["main"] = NoFile
                   /\ \A k \in (Len(applyCalls) + 1)..Len(applyCalls') :
                        applyCalls'[k] \in Range(state.serverIds)
      ]_vars

\* C25, its case: a dev run with two app servers and a dedicated
\* accessories server has created, tracked, polled and firewalled all three.
C25_Witness ==
    /\ mode = "dev" /\ entry = "tui" /\ deleteReqs = <<>>
    /\ serverCount = 2 /\ accServer.id # 0
    /\ Len(applyCalls) = 3 /\ Len(pollCalls) = 3
    /\ Len(state.serverIds) = 3


\* C26: the firewall that ensureFirewall hands to fullDeploy for applying
\* contains the accessory ports if and only if the run asked for them
\* (accessories enabled with dedicated-server placement), also when a
\* firewall of that name is left from an earlier run that asked otherwise.
C26_FirewallMatchesPlacement ==
    (/\ ens.kind = "firewall"
     /\ resp # NoResp
     /\ resp.kind \in {"existing", "created"})
        => resp.ports = ens.ports

\* C27 as stated: with N > 1 the create requests of the servers step are
\* issued concurrently, so when the answer to one of them arrives all N
\* have been issued.
C27_CreatesConcurrent ==
    [][(/\ serverCount > 1
        /\ pc["main"] = "servers_inflight"
        /\ pc'["main"] = "servers_resp")
            => Len(createCalls) = serverCount
      ]_vars

\* C27: the create requests of the servers step are issued one after the
\* other: a turn of the loop issues one request, and only when every earlier
\* request has returned its server (in dev mode: and the trackServer call
\* for it has returned), so at most one create request is in flight.
C27_CreatesSequential ==
    [][(/\ pc["main"] = "servers_issue"
        /\ pc'["main"] = "servers_inflight")
            => /\ Len(createCalls') = Len(createCalls) + 1
               /\ Len(created) = Len(createCalls)
               /\ writeBuf["main"] = NoFile
      ]_vars

C27_Witness ==
    /\ serverCount = 3
    /\ pc["main"] = "servers_inflight"
    /\ Len(createCalls) = 3
    /\ Len(created) = 2

\* C28: fan-in with fail-fast in wait-servers and ssh-wait. The step becomes
\* done only when every one of its concurrent operations has succeeded; the
\* failure of one makes the step error and fullDeploy throw in the same
\* step, however many of the others are still running; and once fullDeploy
\* has thrown, an operation that ends later changes no step status.
C28_FanInFailFast ==
    [][/\ (steps["wait-servers"] = "running" /\ steps'["wait-servers"] = "done")
            => polled = Len(created)
       /\ (steps["ssh-wait"] = "running" /\ steps'["ssh-wait"] = "done")
            => sshDone = Len(allServerIps)
       /\ \A id \in {"wait-servers", "ssh-wait"} :
            (steps[id] = "running" /\ steps'[id] = "error")
                => /\ pc'["main"] = Thrown
                   /\ polled' = polled /\ sshDone' = sshDone
       /\ (pc["main"] = Thrown /\ proc' = "alive" /\ pc'["main"] = Thrown)
            => steps' = steps
      ]_vars

\* C28, its case: the wait for three servers has failed, fullDeploy has
\* thrown, and the two other servers have answered.
C28_Witness ==
    /\ serverCount = 3
    /\ steps["wait-servers"] = "error"
    /\ pc["main"] = Thrown
    /\ polled = 2

\* The create requests of a run that ask for the accessories server.
C29_ExtraRequests ==
    {k \in 1..Len(createCalls) : createCalls[k].suffix = "db"}

\* C29: with the accessories on a dedicated server fullDeploy requests
\* exactly one extra server, after the firewall has been applied to every
\* app server; it polls that server, and applies the firewall to it only
\* after the poll answered running. With the accessories disabled or
\* co-located it requests no extra server and the accessories-server step
\* ends as done.
C29_DedicatedAccessoriesServer ==
    entry = "tui" =>
        IF accessories = "dedicated-server"
        THEN /\ steps["accessories-server"] = "pending" => C29_ExtraRequests = {}
             /\ steps["accessories-server"] # "pending"
                    => /\ C29_ExtraRequests = {serverCount + 1}
                       /\ Len(applyCalls) >= serverCount
                       /\ \A k \in 1..serverCount : applyCalls[k] = readyServers[k].id
             /\ Len(applyCalls) > serverCount
                    => /\ Len(applyCalls) = serverCount + 1
                       /\ Len(pollCalls) = serverCount + 1
                       /\ pollCalls[serverCount + 1] = applyCalls[serverCount + 1]
                       /\ mode # "dry-run" => applyCalls[serverCount + 1] \in createdIds
                       /\ applyCalls[serverCount + 1] \notin Range(serverIds)
             /\ steps["accessories-server"] = "done"
                    => /\ accServer.id = applyCalls[serverCount + 1]
                       /\ Len(applyCalls) = serverCount + 1
        ELSE /\ C29_ExtraRequests = {}
             /\ Len(applyCalls) <= serverCount
             /\ accServer = NoServer
             /\ steps["accessories-server"] \in {"pending", "done"}
             /\ steps["load-balancer"] # "pending"
                    => steps["accessories-server"] = "done"

\* C29, its case: two app servers and a dedicated accessories server, the
\* firewall applied to all three.
C29_Witness ==
    /\ entry = "tui"
    /\ accessories = "dedicated-server"
    /\ serverCount = 2
    /\ steps["accessories-server"] = "done"
    /\ Len(applyCalls) = 3

\* The steps of fullDeploy that come after ssh-wait.
C30_LaterSteps == {"dockerfile", "kamal-check", "kamal-init", "git-commit", "kamal-setup"}

\* The hosts of a run: its app servers, and its accessories server when that
\* is a dedicated one.
C30_Hosts ==
    [k \in 1..serverCount |-> readyServers[k].ip]
        \o (IF accessories = "dedicated-server" THEN <<accServer.ip>> ELSE <<>>)

\* C30: in production and dev mode the ssh-wait step starts one waitForSSH
\* per host of the run, the dedicated accessories server included, and no
\* later step starts before every one of them has connected; in dry-run no
\* waitForSSH is started and the step ends as done.
C30_SSHWaitEveryHost ==
    entry = "tui" =>
        IF mode = "dry-run"
        THEN /\ sshCalls = <<>> /\ sshDone = 0
             /\ steps["ssh-wait"] \in {"pending", "done"}
             /\ \A id \in C30_LaterSteps :
                    steps[id] # "pending" => steps["ssh-wait"] = "done"
        ELSE /\ steps["ssh-wait"] = "pending" => sshCalls = <<>>
             /\ steps["ssh-wait"] # "pending"
                    => /\ sshCalls = C30_Hosts
                       /\ \A j, k \in 1..Len(sshCalls) : sshCalls[j] = sshCalls[k] => j = k
             /\ steps["ssh-wait"] = "done" => sshDone = Len(sshCalls)
             /\ \A id \in C30_LaterSteps :
                    steps[id] # "pending"
                        => /\ steps["ssh-wait"] = "done"
                           /\ sshDone = Len(C30_Hosts)

\* C30, its case: a run with two app servers and a dedicated accessories
\* server has gone past ssh-wait.
C30_Witness ==
    /\ entry = "tui" /\ mode = "production"
    /\ serverCount = 2 /\ accessories = "dedicated-server"
    /\ steps["dockerfile"] # "pending"
    /\ Len(sshCalls) = 3 /\ sshDone = 3

\* The steps that come between the provisioning and kamal-setup.
C31_Before == {"ssh-wait", "dockerfile", "kamal-check", "kamal-init", "git-commit"}

\* C31: `kamal setup` is spawned at most once per run, when ssh-wait,
\* dockerfile, kamal-check, kamal-init and git-commit are all done and as
\* the last step (no other step changes status afterwards); when it fails
\* the kamal-setup step is in error, fullDeploy throws, and no deployment
\* record is added then or later.
C31_KamalSetupLast ==
    [][/\ kamalCalls' > kamalCalls
            => /\ kamalCalls = 0 /\ kamalCalls' = 1
               /\ \A id \in C31_Before : steps[id] = "done"
               /\ steps["kamal-setup"] = "pending"
               /\ steps'["kamal-setup"] = "running"
       /\ (kamalCalls = 1 /\ proc' = "alive")
            => \A id \in StepIds \ {"kamal-setup"} : steps'[id] = steps[id]
       /\ (steps["kamal-setup"] = "running" /\ steps'["kamal-setup"] = "error")
            => /\ pc'["main"] = Thrown
               /\ raised'.prefix = "Running Kamal setup"
               /\ deployments' = deployments
       /\ (steps["kamal-setup"] = "error" \/ (kamalCalls = 1 /\ pc["main"] = Thrown))
            => deployments' = deployments
       /\ (deployments' # deployments /\ mode # "dry-run")
            => kamalCalls = 1 /\ steps["kamal-setup"] = "done"
      ]_vars

\* C31, its case: `kamal setup` was spawned once and failed.
C31_Witness ==
    /\ kamalCalls = 1
    /\ steps["kamal-setup"] = "error"
    /\ pc["main"] = Thrown
    /\ deployments = 0

\* C32: whenever fullDeploy throws, in that same step some step of STEPS is
\* set to error with the failure text, the error thrown carries that text
\* prefixed with that step's display name, and afterwards no step changes
\* status.
C32_UniformWrapping ==
    [][/\ (pc["main"] # Thrown /\ pc'["main"] = Thrown)
            => \E id \in StepIds :
                /\ steps[id] = "running" /\ steps'[id] = "error"
                /\ stepMsg'[id].text = raised'.text
                /\ raised'.prefix = StepName(id)
       /\ (pc["main"] = Thrown /\ proc' = "alive") => steps' = steps
      ]_vars

\* C33: untrackServer(id), called after trackServer(id), issues no delete
\* request; when it returns, id is neither in the in-memory list nor in
\* the cleanup file, and every other tracked id is where it was, in memory
\* and in the file; a runCleanup called next issues no delete request for
\* id.
C33_UntrackRemovesWithoutDeleting ==
    [][/\ (pc["api"] = "api_idle" /\ pc'["api"] = "api_untrack_w")
            => /\ deleteReqs' = deleteReqs
               /\ apiOp'.id \notin Range(state'.serverIds)
               /\ \A o \in ApiIds \ {apiOp'.id} :
                    o \in Range(state.serverIds) <=> o \in Range(state'.serverIds)
       /\ (pc["api"] = "api_untrack_w" /\ pc'["api"] = "api_ret"
            /\ apiPrev = [op |-> "trackServer", id |-> apiOp.id])
            => /\ deleteReqs' = deleteReqs
               /\ state' = state
               /\ apiOp.id \notin Range(FileIds')
               /\ \A o \in Range(state.serverIds) :
                    o \in Range(FileIds) => o \in Range(FileIds')
       /\ (apiOp.op = "runCleanup" /\ apiPrev.op = "untrackServer"
            /\ Len(deleteReqs') > Len(deleteReqs))
            => deleteReqs'[Len(deleteReqs')] # apiPrev.id
      ]_vars

\* C34: the step list an observer received in a progress callback and kept
\* still shows the statuses as of that callback, whatever status changes
\* fullDeploy has made since (here: the list of the first callback).
C34_ReadOnlySnapshots ==
    kept # <<>> => readKept(kept) = kept

\* C35, the half of it that fails whatever the writes do: in a process that
\* started with no cleanup file and has made only trackServer, untrackServer
\* and runCleanup calls, whenever no call is in progress and no id is
\* tracked, the cleanup file is absent.
C35_AbsentIffEmpty ==
    (/\ entry = "api" /\ proc = "alive" /\ pc["api"] = "api_idle"
     /\ servers = {} /\ state.hetznerToken = NoToken
     /\ state.serverIds = <<>>)
        => file = NoFile

\* C36: on a machine where every write succeeds, in a process in which
\* initCleanup with a token has completed, whenever no call is in progress
\* the ids in the cleanup file (none when the file is absent) are the
\* in-memory list, in the same order.
C36_FileEqualsMemory ==
    (/\ entry = "api" /\ disk = "reliable"
     /\ proc = "alive" /\ pc["api"] = "api_idle"
     /\ state.hetznerToken # NoToken)
        => FileIds = state.serverIds

\* C36, its case: after initCleanup two ids were tracked and one of them
\* untracked, every write succeeding.
C36_Witness ==
    /\ entry = "api" /\ disk = "reliable"
    /\ proc = "alive" /\ pc["api"] = "api_idle"
    /\ state.hetznerToken # NoToken
    /\ apiOp.op = "untrackServer"
    /\ state.serverIds = <<102>>
    /\ FileIds = <<102>>

\* C37: at most one step is running; when a step is running or error every
\* step before it in STEPS is done and every step after it is pending; and
\* every step before a done step is done.
C37_StepsInListOrder ==
    /\ Cardinality({id \in StepIds : steps[id] = "running"}) <= 1
    /\ \A k \in 1..Len(STEPS) :
        /\ steps[STEPS[k]] \in {"running", "error"}
            => /\ \A j \in 1..(k - 1) : steps[STEPS[j]] = "done"
               /\ \A j \in (k + 1)..Len(STEPS) : steps[STEPS[j]] = "pending"
        /\ steps[STEPS[k]] = "done"
            => \A j \in 1..(k - 1) : steps[STEPS[j]] = "done"

\* C37, its case: the ssh-wait step of a run with a load balancer and a
\* dedicated accessories server is in error.
C37_Witness ==
    /\ serverCount = 2 /\ accessories = "dedicated-server"
    /\ steps["ssh-wait"] = "error"
    /\ steps["load-balancer"] = "done"
    /\ steps["dockerfile"] = "pending"

\* C38: in dev mode, when a createServer call of the servers step fails and
\* fullDeploy raises, the cleanup file lists every server the step created
\* before.
C38_CreatedListedAtRaise ==
    [][(/\ mode = "dev" /\ entry = "tui"
        /\ pc["main"] = "servers_resp" /\ pc'["main"] = Thrown)
            => \A k \in 1..Len(created) : created[k].id \in Range(FileIds')
      ]_vars

\* The steps of fullDeploy that call the provider client.
C39_ProviderSteps ==
    {"ssh-key", "firewall", "servers", "wait-servers", "accessories-server",
     "load-balancer"}

\* C39: in dry-run, whatever the replica count and the placement of the
\* accessories, no step that calls the provider client ends in error: the
\* mock client has every operation fullDeploy invokes.
C39_MockClientComplete ==
    (mode = "dry-run" /\ entry = "tui")
        => \A id \in C39_ProviderSteps : steps[id] # "error"

\* C40: no step of a run in dry-run mode adds a record to the deployments
\* store.
C40_DryRunStoreUnchanged ==
    [][mode = "dry-run" => deployments' = deployments]_vars

====
